---- MODULE Spec2Model ----
(***************************************************************************)
(* OpenBridge: the endpoint-to-tool synthesis pipeline of                  *)
(* src/src/OpenBridge/tools/api.py.                                        *)
(*                                                                         *)
(* Python strings are sequences of one-character strings, so that          *)
(* str.lower, str.replace, str.lstrip, str.startswith and the `in`         *)
(* substring test are computed character by character as CPython does.     *)
(* Optional values are sequences of length at most one: <<>> is None.      *)
(***************************************************************************)
EXTENDS Integers, Sequences, FiniteSets, TLC

VARIABLES
    pc,                \* where the process is
    paths,             \* spec["paths"] in iteration order (api.py:353-358)
    idx,               \* number of (path, method) entries already iterated
    path,              \* loop variable / argument `path`
    method,            \* loop variable / argument `method`
    operation,         \* loop variable / argument `operation`
    eligible,          \* result of should_register_endpoint (Optional)
    tool_name,         \* result of normalize_tool_name
    registered_count,  \* api.py:350
    skipped_count,     \* api.py:351
    tools,             \* the mcp.add_tool calls made so far, in order
    registry,          \* the runtime's tool table: identifier -> bound closure
    call,              \* the tool invocation being served (Optional)
    request,           \* the outbound requests.request call (Optional)
    sent,              \* requests.request calls made by the call being served
    outcome,           \* what requests.request produced (Optional)
    result,            \* what the call returned or raised (Optional)
    effects,           \* what make_api_request did with the response
    files,             \* the storage directory: file path -> content
    dir_exists,        \* whether the storage directory exists
    uuid_count,        \* uuid.uuid4() values drawn so far
    caller_mapping,    \* the caller's `parameters` object (Optional)
    default_mapping,   \* the default `parameters` object of api.py:305
    static_tools,      \* the mcp.add_tool calls for the static tools
    spec,              \* what fetch_openapi_spec returned (Optional)
    api_key,           \* settings.api_key (Optional)
    auth_token,        \* settings.auth_token (Optional)
    calls              \* the invocations of storage-writing tools so far

\* the state of a call after its request
execVars == <<sent, outcome, result, effects, files, dir_exists, uuid_count>>

\* the mapping objects a call can reach
heapVars == <<caller_mapping, default_mapping>>

\* the state of the startup before the registration pass
startVars == <<static_tools, spec>>

\* the credentials of config.py:42-49
confVars == <<api_key, auth_token>>

\* the invocations that run side by side
poolVars == <<calls>>

vars == <<pc, paths, idx, path, method, operation, eligible, tool_name,
          registered_count, skipped_count, tools, registry, call, request,
          execVars, heapVars, startVars, confVars, poolVars>>

----------------------------------------------------------------------------
(* Bounds of the model. *)

\* Longest path, in tokens, of the function-level specifications.
MaxPathTokens == 3

\* Most (path, method) entries of an OpenAPI document.
MaxOps == 2

----------------------------------------------------------------------------
(* Python string primitives. *)

None == <<>>

Some(x) == <<x>>

UpperLetters == <<"A", "B", "C", "D", "E", "F", "G", "H", "I", "J", "K", "L", "M", "N", "O", "P", "Q", "R", "S", "T", "U", "V", "W", "X", "Y", "Z">>

LowerLetters == <<"a", "b", "c", "d", "e", "f", "g", "h", "i", "j", "k", "l", "m", "n", "o", "p", "q", "r", "s", "t", "u", "v", "w", "x", "y", "z">>

LowerOf == [c \in {UpperLetters[i] : i \in 1..26} |->
               LowerLetters[CHOOSE i \in 1..26 : UpperLetters[i] = c]]

UpperOf == [c \in {LowerLetters[i] : i \in 1..26} |->
               UpperLetters[CHOOSE i \in 1..26 : LowerLetters[i] = c]]

\* str.lower on one character
LowerChar(c) == IF c \in DOMAIN LowerOf THEN LowerOf[c] ELSE c

\* str.upper on one character
UpperChar(c) == IF c \in DOMAIN UpperOf THEN UpperOf[c] ELSE c

StrLower(s) == [i \in 1..Len(s) |-> LowerChar(s[i])]

StrUpper(s) == [i \in 1..Len(s) |-> UpperChar(s[i])]

\* s.startswith(prefix)
StartsWith(s, prefix) ==
    /\ Len(prefix) <= Len(s)
    /\ SubSeq(s, 1, Len(prefix)) = prefix

\* sub in s
Contains(s, sub) ==
    \E i \in 0..(Len(s) - Len(sub)) : SubSeq(s, i + 1, i + Len(sub)) = sub

\* s.replace(old, new) for a non-empty old: left to right, non-overlapping,
\* one pass (the text produced by a replacement is not scanned again).
RECURSIVE Replace(_, _, _)
Replace(s, old, new) ==
    IF Len(s) < Len(old) THEN s
    ELSE IF SubSeq(s, 1, Len(old)) = old
         THEN new \o Replace(SubSeq(s, Len(old) + 1, Len(s)), old, new)
         ELSE <<s[1]>> \o Replace(Tail(s), old, new)

\* s.lstrip(c) for a single character c
RECURSIVE LStrip(_, _)
LStrip(s, c) ==
    IF s # <<>> /\ s[1] = c THEN LStrip(Tail(s), c) ELSE s

RECURSIVE Flatten(_)
Flatten(ss) == IF ss = <<>> THEN <<>> ELSE Head(ss) \o Flatten(Tail(ss))

\* All sequences over S of length at most n.
SeqsUpTo(S, n) == UNION {[1..k -> S] : k \in 0..n}

----------------------------------------------------------------------------
(* Configuration: src/src/OpenBridge/config.py *)

\* Settings.server_base_url
server_base_url == <<"h", "t", "t", "p", "s", ":", "/", "/", "p", "a", "d", ".", "c", "r", "c", ".", "n", "d", ".", "e", "d", "u">>

\* Settings.excluded_endpoint_patterns
excluded_endpoint_patterns == << <<"s", "t", "r", "e", "a", "m">>, <<"w", "e", "b", "p", "a", "g", "e">> >>

----------------------------------------------------------------------------
(* OpenAPI operations.  An operation is a record                           *)
(*   parameters : sequence of [name, in]                                   *)
(*   responses  : sequence of [status, content], content a set of          *)
(*                content types (the keys of the response's "content").    *)

Param(name, loc) == [name |-> name, in |-> loc]

Response(status, content) == [status |-> status, content |-> content]

Operation(parameters, responses) ==
    [parameters |-> parameters, responses |-> responses]

NoOperation == Operation(<<>>, <<>>)

----------------------------------------------------------------------------
(* normalize_tool_name, api.py:111-124 *)

\* The whole string "{method} {path}" lower-cased before the replacements.
normalize_tool_name_LowerAll(m, p) ==
    LStrip(
      Replace(
        Replace(
          Replace(
            Replace(
              Replace(
                Replace(StrLower(m \o <<" ">> \o p), <<" ">>, <<"_">>),
                <<"/">>, <<"_">>),
              <<"{">>, <<>>),
            <<"}">>, <<>>),
          <<"-">>, <<"_">>),
        <<"_", "_">>, <<"_">>),
      "_")

\* The hyphen replacement left out.
normalize_tool_name_KeepHyphen(m, p) ==
    LStrip(
      Replace(
        Replace(
          Replace(
            Replace(
              Replace(StrLower(m) \o <<" ">> \o p, <<" ">>, <<"_">>),
              <<"/">>, <<"_">>),
            <<"{">>, <<>>),
          <<"}">>, <<>>),
        <<"_", "_">>, <<"_">>),
      "_")

normalize_tool_name(m, p) ==
    LStrip(
      Replace(
        Replace(
          Replace(
            Replace(
              Replace(
                Replace(StrLower(m) \o <<" ">> \o p, <<" ">>, <<"_">>),
                <<"/">>, <<"_">>),
              <<"{">>, <<>>),
            <<"}">>, <<>>),
          <<"-">>, <<"_">>),
        <<"_", "_">>, <<"_">>),
      "_")

----------------------------------------------------------------------------
(* should_register_endpoint, api.py:127-163 *)

\* api.py:156-158
IsBinaryMime(mime_type) ==
    \/ StartsWith(mime_type, <<"i", "m", "a", "g", "e", "/">>)
    \/ StartsWith(mime_type, <<"a", "p", "p", "l", "i", "c", "a", "t", "i", "o", "n", "/", "o", "c", "t", "e", "t", "-", "s", "t", "r", "e", "a", "m">>)
    \/ StartsWith(mime_type, <<"a", "p", "p", "l", "i", "c", "a", "t", "i", "o", "n", "/", "p", "d", "f">>)

\* The pattern looked up in the path as written, not in path.lower().
should_register_endpoint_CaseSensitive(p, m, op) ==
    IF \E k \in 1..Len(excluded_endpoint_patterns) :
           Contains(p, excluded_endpoint_patterns[k])
    THEN FALSE
    ELSE IF \E r \in 1..Len(op.responses) :
              \E mime_type \in op.responses[r].content :
                  /\ IsBinaryMime(mime_type)
                  /\ ~Contains(p, <<"d", "o", "w", "n", "l", "o", "a", "d", "-", "i", "m", "a", "g", "e">>)
         THEN FALSE
         ELSE TRUE

\* The "download-image" exemption left out.
should_register_endpoint_NoExemption(p, m, op) ==
    IF \E k \in 1..Len(excluded_endpoint_patterns) :
           Contains(StrLower(p), excluded_endpoint_patterns[k])
    THEN FALSE
    ELSE IF \E r \in 1..Len(op.responses) :
              \E mime_type \in op.responses[r].content :
                  IsBinaryMime(mime_type)
         THEN FALSE
         ELSE TRUE

should_register_endpoint(p, m, op) ==
    IF \E k \in 1..Len(excluded_endpoint_patterns) :
           Contains(StrLower(p), excluded_endpoint_patterns[k])
    THEN FALSE
    ELSE IF \E r \in 1..Len(op.responses) :
              \E mime_type \in op.responses[r].content :
                  /\ IsBinaryMime(mime_type)
                  /\ ~Contains(p, <<"d", "o", "w", "n", "l", "o", "a", "d", "-", "i", "m", "a", "g", "e">>)
         THEN FALSE
         ELSE TRUE

\* api.py:359-360
IsHttpMethod(m) ==
    StrLower(m) \in { <<"g", "e", "t">>, <<"p", "o", "s", "t">>, <<"p", "u", "t">>, <<"d", "e", "l", "e", "t", "e">>, <<"p", "a", "t", "c", "h">> }

----------------------------------------------------------------------------
(* Inputs of the function-level specifications. *)

NameTokens ==
    { <<"/">>, <<"-">>, <<"{">>, <<"}">>, <<" ">>, <<"_">>, <<"a">>, <<"B">>,
      <<"s", "t", "r", "e", "a", "m">> }

NamePaths == { Flatten(ts) : ts \in SeqsUpTo(NameTokens, MaxPathTokens) }

NameMethods == { <<"g", "e", "t">>, <<"G", "E", "T">>, <<"P", "o", "s", "t">>, <<"d", "e", "l", "e", "t", "e">>, <<"h", "e", "a", "d">>, <<>> }

FilterTokens ==
    { <<"/">>, <<"a">>, <<"s", "t", "r", "e", "a", "m">>, <<"S", "t", "r", "e", "a", "m">>, <<"w", "e", "b", "p", "a", "g", "e">>, <<"W", "E", "B", "P", "A", "G", "E">>,
      <<"d", "o", "w", "n", "l", "o", "a", "d", "-", "i", "m", "a", "g", "e">>, <<"D", "o", "w", "n", "l", "o", "a", "d", "-", "I", "m", "a", "g", "e">> }

FilterPaths == { Flatten(ts) : ts \in SeqsUpTo(FilterTokens, MaxPathTokens) }

FilterMethods == { <<"g", "e", "t">>, <<"P", "O", "S", "T">>, <<"h", "e", "a", "d">> }

FilterOperations ==
    { NoOperation,
      Operation(<<>>, << Response("200", { <<"a", "p", "p", "l", "i", "c", "a", "t", "i", "o", "n", "/", "j", "s", "o", "n">> }) >>),
      Operation(<<>>, << Response("200", { <<"i", "m", "a", "g", "e", "/", "p", "n", "g">> }) >>),
      Operation(<<>>, << Response("200", { <<"a", "p", "p", "l", "i", "c", "a", "t", "i", "o", "n", "/", "j", "s", "o", "n">> }),
                         Response("404", { <<"a", "p", "p", "l", "i", "c", "a", "t", "i", "o", "n", "/", "o", "c", "t", "e", "t", "-", "s", "t", "r", "e", "a", "m">> }) >>),
      Operation(<<>>, << Response("200", { <<"a", "p", "p", "l", "i", "c", "a", "t", "i", "o", "n", "/", "p", "d", "f">> }) >>),
      Operation(<<>>, << Response("204", {}),
                         Response("200", { <<"a", "p", "p", "l", "i", "c", "a", "t", "i", "o", "n", "/", "j", "s", "o", "n">>,
                                           <<"i", "m", "a", "g", "e", "/", "j", "p", "e", "g">> }) >>),
      Operation(<<>>, << Response("200", { <<"t", "e", "x", "t", "/", "h", "t", "m", "l">>, <<"I", "m", "a", "g", "e", "/", "P", "N", "G">> }) >>) }

----------------------------------------------------------------------------
(* State shared by the specifications. *)

\* Nothing registered, nothing invoked.
Idle ==
    /\ paths = <<>>
    /\ idx = 0
    /\ registered_count = 0
    /\ skipped_count = 0
    /\ tools = <<>>
    /\ registry = <<>>
    /\ call = None
    /\ request = None
    /\ sent = 0
    /\ outcome = None
    /\ result = None
    /\ effects = {}
    /\ files = <<>>
    /\ dir_exists = TRUE
    /\ uuid_count = 0
    /\ caller_mapping = None
    /\ default_mapping = <<>>
    /\ static_tools = <<>>
    /\ spec = None
    /\ api_key = None
    /\ auth_token = None
    /\ calls = <<>>

----------------------------------------------------------------------------
(* SpecName: normalize_tool_name applied to a (method, path) pair. *)

InitName ==
    /\ pc = "name_input"
    /\ method \in NameMethods
    /\ path \in NamePaths
    /\ operation = NoOperation
    /\ eligible = None
    /\ tool_name = <<>>
    /\ Idle

NameStep ==
    /\ pc = "name_input"
    /\ tool_name' = normalize_tool_name(method, path)
    /\ pc' = "named"
    /\ UNCHANGED <<execVars, heapVars, startVars>>
    /\ UNCHANGED <<paths, idx, path, method, operation, eligible,
                   registered_count, skipped_count, tools, registry, call,
                   request>>
    /\ UNCHANGED <<confVars, poolVars>>

SpecName == InitName /\ [][NameStep]_vars

----------------------------------------------------------------------------
(* SpecFilter: should_register_endpoint applied to (path, method,          *)
(* operation).                                                             *)

InitFilter ==
    /\ pc = "filter_input"
    /\ method \in FilterMethods
    /\ path \in FilterPaths
    /\ operation \in FilterOperations
    /\ eligible = None
    /\ tool_name = <<>>
    /\ Idle

FilterStep ==
    /\ pc = "filter_input"
    /\ eligible' = Some(should_register_endpoint(path, method, operation))
    /\ pc' = "filtered"
    /\ UNCHANGED <<execVars, heapVars, startVars>>
    /\ UNCHANGED <<paths, idx, path, method, operation, tool_name,
                   registered_count, skipped_count, tools, registry, call,
                   request>>
    /\ UNCHANGED <<confVars, poolVars>>

SpecFilter == InitFilter /\ [][FilterStep]_vars

----------------------------------------------------------------------------
(* Parameter values and mappings.  A value is an int, a bool or a str;     *)
(* a mapping is a function from names to values.                           *)

IntVal(k) == [type |-> "int", n |-> k, s |-> <<>>]

BoolVal(b) == [type |-> "bool", n |-> IF b THEN 1 ELSE 0, s |-> <<>>]

StrVal(t) == [type |-> "str", n |-> 0, s |-> t]

Digits == <<"0", "1", "2", "3", "4", "5", "6", "7", "8", "9">>

RECURSIVE NatToStr(_)
NatToStr(k) ==
    IF k < 10 THEN <<Digits[k + 1]>>
    ELSE NatToStr(k \div 10) \o <<Digits[(k % 10) + 1]>>

\* str(value), api.py:322
Str(v) ==
    CASE v.type = "int"  -> IF v.n < 0 THEN <<"-">> \o NatToStr(-v.n)
                            ELSE NatToStr(v.n)
      [] v.type = "bool" -> IF v.n = 1 THEN <<"T", "r", "u", "e">> ELSE <<"F", "a", "l", "s", "e">>
      [] v.type = "str"  -> v.s

\* the mapping left by d.pop(k)
DictPop(d, k) == [x \in (DOMAIN d) \ {k} |-> d[x]]

EmptyDict == <<>>

----------------------------------------------------------------------------
(* AuthConfig.get_headers, config.py:101-108 *)

\* `if self.api_key:` - None and the empty string count as not configured
Configured(credential) == credential # None /\ credential[1] # <<>>

\* The bearer token sent under the name of the API key header as well.
get_headers_TokenAsKey(key, token) ==
    (IF Configured(key) \/ Configured(token)
       THEN ("X-API-Key" :> (IF Configured(key) THEN key[1] ELSE token[1]))
       ELSE <<>>)
    @@ (IF Configured(token)
          THEN ("Authorization" :> (<<"B", "e", "a", "r", "e", "r", " ">> \o token[1]))
          ELSE <<>>)

get_headers(key, token) ==
    (IF Configured(key) THEN ("X-API-Key" :> key[1]) ELSE <<>>)
    @@ (IF Configured(token)
          THEN ("Authorization" :> (<<"B", "e", "a", "r", "e", "r", " ">> \o token[1]))
          ELSE <<>>)

----------------------------------------------------------------------------
(* make_api_request, api.py:166-193: the requests.request call it makes.   *)

\* json_data sent whatever the method.
OutboundRequest_AlwaysJson(url, m, params, json_data) ==
    [method |-> StrUpper(m),
     url    |-> url,
     params |-> IF StrUpper(m) = <<"G", "E", "T">> THEN params ELSE None,
     json   |-> json_data,
     headers |-> get_headers(api_key, auth_token)]

OutboundRequest(url, m, params, json_data) ==
    [method |-> StrUpper(m),
     url    |-> url,
     params |-> IF StrUpper(m) = <<"G", "E", "T">> THEN params ELSE None,
     json   |-> IF StrUpper(m) # <<"G", "E", "T">> THEN json_data ELSE None,
     headers |-> get_headers(api_key, auth_token)]

----------------------------------------------------------------------------
(* make_dynamic_tool_func.dynamic_tool_func, api.py:305-337 *)

\* The path parameter read with params[pname] instead of params.pop(pname).
RECURSIVE PathParamLoop_NoPop(_, _, _)
PathParamLoop_NoPop(ps, params, final_url) ==
    IF ps = <<>> THEN [params |-> params, final_url |-> final_url]
    ELSE LET param == Head(ps) IN
         IF param.in = "path" /\ param.name \in DOMAIN params
         THEN PathParamLoop_NoPop(
                  Tail(ps),
                  params,
                  Replace(final_url,
                          <<"{">> \o param.name \o <<"}">>,
                          Str(params[param.name])))
         ELSE PathParamLoop_NoPop(Tail(ps), params, final_url)

\* api.py:318-323, the loop over operation.get("parameters", [])
RECURSIVE PathParamLoop(_, _, _)
PathParamLoop(ps, params, final_url) ==
    IF ps = <<>> THEN [params |-> params, final_url |-> final_url]
    ELSE LET param == Head(ps) IN
         IF param.in = "path" /\ param.name \in DOMAIN params
         THEN PathParamLoop(
                  Tail(ps),
                  DictPop(params, param.name),
                  Replace(final_url,
                          <<"{">> \o param.name \o <<"}">>,
                          Str(params[param.name])))
         ELSE PathParamLoop(Tail(ps), params, final_url)

\* `params = parameters if parameters else {}`: no copy is made.
ParamsAliasesArgument_NoCopy(parameters) ==
    parameters # None /\ parameters[1] # EmptyDict

\* api.py:312: whether `params` is the very object the caller passed.
\* It never is: params is parameters.copy() or a new {}.
ParamsAliasesArgument(parameters) == FALSE

\* The object passed as `parameters` once dynamic_tool_func has run: the
\* pops of api.py:322 reach it only through an alias.
ArgumentAfterCall(p, op, parameters) ==
    IF parameters # None /\ ParamsAliasesArgument(parameters)
    THEN Some(PathParamLoop(op.parameters, parameters[1],
                            server_base_url \o p).params)
    ELSE parameters

\* The arguments dynamic_tool_func passes to make_api_request.
\* `parameters` is Optional: None, or a mapping (an empty one is falsy).
dynamic_tool_func(p, m, op, parameters) ==
    LET params0 == IF parameters # None /\ parameters[1] # EmptyDict
                   THEN parameters[1] ELSE EmptyDict
        st == PathParamLoop(op.parameters, params0, server_base_url \o p)
        method_upper == StrUpper(m)
    IN  [url       |-> st.final_url,
         method    |-> method_upper,
         params    |-> IF method_upper = <<"G", "E", "T">> THEN Some(st.params) ELSE None,
         json_data |-> IF method_upper # <<"G", "E", "T">> THEN Some(st.params) ELSE None]

----------------------------------------------------------------------------
(* Inputs of Spec: OpenAPI documents and tool invocations. *)

K_id == <<"i", "d">>

K_verbose == <<"v", "e", "r", "b", "o", "s", "e">>

K_n == <<"n">>

P_c_id == <<"/", "c", "/", "{", "i", "d", "}">>

P_c_id_n == <<"/", "c", "/", "{", "i", "d", "}", "/", "{", "n", "}">>

\* normalizes to the identifier of P_c_id_n
P_c_id_n_plain == <<"/", "c", "-", "i", "d", "/", "n">>

P_x_stream == <<"/", "x", "/", "s", "t", "r", "e", "a", "m">>

JsonResponse == Response("200", { <<"a", "p", "p", "l", "i", "c", "a", "t", "i", "o", "n", "/", "j", "s", "o", "n">> })

\* path parameter id, query parameter verbose
OpA == Operation(<< Param(K_id, "path"), Param(K_verbose, "query") >>,
                 << JsonResponse >>)

\* path parameters n and id
OpB == Operation(<< Param(K_n, "path"), Param(K_id, "path") >>, <<>>)

\* no parameter, an image response
OpImg == Operation(<<>>, << Response("200", { <<"i", "m", "a", "g", "e", "/", "p", "n", "g">> }) >>)

DocPaths == { P_c_id, P_c_id_n, P_c_id_n_plain, P_x_stream }

DocMethods == { <<"g", "e", "t">>, <<"P", "O", "S", "T">>, <<"h", "e", "a", "d">> }

DocOperations == { OpA, OpB, OpImg }

\* One step of the iteration `for path, path_item in paths.items()` /
\* `for method, operation in path_item.items()`: an operation of a path
\* item, or a path whose path item is empty (api.py:355).
OpEntry(p, m, op) ==
    [kind |-> "op", path |-> p, method |-> m, operation |-> op]

EmptyEntry(p) ==
    [kind |-> "empty", path |-> p, method |-> <<>>, operation |-> NoOperation]

\* A path item that is neither empty nor a mapping (a string, a number).
BadItemEntry(p) ==
    [kind |-> "bad_item", path |-> p, method |-> <<>>,
     operation |-> NoOperation]

\* An operation that is no mapping (a string, a list, null): it has no
\* responses to look at, and no get().
BadOpEntry(p, m) ==
    [kind |-> "bad_op", path |-> p, method |-> m, operation |-> NoOperation]

DocEntries ==
    { OpEntry(p, m, op) : p \in DocPaths, m \in DocMethods,
                          op \in DocOperations }
    \cup { EmptyEntry(p) : p \in DocPaths }

\* The iteration of a dict of dicts: a path occurs in one run of entries,
\* a method at most once per path, an empty path item has no operation.
IsDocument(d) ==
    /\ \A i, j \in 1..Len(d) :
          (i < j /\ d[i].path = d[j].path) =>
              /\ d[i].kind = "op" /\ d[j].kind = "op"
              /\ d[i].method # d[j].method
              /\ \A k \in i..j : d[k].path = d[i].path

Documents == { d \in SeqsUpTo(DocEntries, MaxOps) : IsDocument(d) }

M_id_verbose == (K_id :> IntVal(7)) @@ (K_verbose :> BoolVal(TRUE))

M_id == (K_id :> IntVal(12))

M_verbose_n == (K_verbose :> BoolVal(FALSE)) @@ (K_n :> StrVal(<<"x">>))

M_id_n == (K_id :> StrVal(<<"q">>)) @@ (K_n :> IntVal(3))

\* What a caller may pass as `parameters`.
ParameterInputs ==
    { None, Some(EmptyDict), Some(M_id_verbose), Some(M_id),
      Some(M_verbose_n), Some(M_id_n) }

DirectUrls == { server_base_url \o P_c_id_n_plain }

DirectMethods == { <<"G", "E", "T">>, <<"g", "e", "t">>, <<"p", "o", "s", "t">>, <<"P", "U", "T">> }

DirectParams == { None, Some(M_id) }

DirectJson == { None, Some(M_verbose_n) }

\* server.py:112-119 and api.py:23: the static tools, in the order of
\* their mcp.add_tool calls
StaticTools ==
    << "compute_average_rgb", "analyze_image_regions", "load_image",
       "save_image", "download_ontology" >>

----------------------------------------------------------------------------
(* Spec: the registration pass over a document, then the tool calls. *)

Init ==
    /\ pc = "register"
    /\ paths \in Documents
    /\ idx = 0
    /\ path = <<>>
    /\ method = <<>>
    /\ operation = NoOperation
    /\ eligible = None
    /\ tool_name = <<>>
    /\ registered_count = 0
    /\ skipped_count = 0
    /\ tools = <<>>
    /\ registry = <<>>
    /\ call = None
    /\ request = None
    /\ sent = 0
    /\ outcome = None
    /\ result = None
    /\ effects = {}
    /\ files = <<>>
    /\ dir_exists = TRUE
    /\ uuid_count = 0
    /\ caller_mapping = None
    /\ default_mapping = EmptyDict
    /\ static_tools = StaticTools
    /\ spec = Some("document")
    /\ api_key = None
    /\ auth_token = None
    /\ calls = <<>>

\* The closure make_dynamic_tool_func returns, with the name it is
\* registered under: path, method and operation are its bound arguments.
Tool(name, p, m, op) ==
    [name |-> name, path |-> p, method |-> m, operation |-> op]

\* mcp.add_tool (FastMCP, not part of this repository) on the tool table:
\* a new identifier is added; for an identifier already registered the
\* runtime either keeps the first tool or replaces it.
AddToolOutcomes(reg, t) ==
    IF t.name \in DOMAIN reg
    THEN { reg, [reg EXCEPT ![t.name] = t] }
    ELSE { reg @@ (t.name :> t) }

\* api.py:354-356: `if not path_item: continue`
SkipEmptyPathItem ==
    /\ pc = "register"
    /\ idx < Len(paths)
    /\ paths[idx + 1].kind = "empty"
    /\ idx' = idx + 1
    /\ path' = paths[idx + 1].path
    /\ UNCHANGED <<execVars, heapVars, startVars>>
    /\ UNCHANGED <<pc, paths, method, operation, eligible, tool_name,
                   registered_count, skipped_count, tools, registry, call,
                   request>>
    /\ UNCHANGED <<confVars, poolVars>>

\* api.py:358-361: a key that is not one of the five methods
SkipMethod ==
    /\ pc = "register"
    /\ idx < Len(paths)
    /\ LET e == paths[idx + 1] IN
        /\ e.kind \in {"op", "bad_op"}
        /\ ~IsHttpMethod(e.method)
        /\ path' = e.path
        /\ method' = e.method
        /\ operation' = e.operation
    /\ idx' = idx + 1
    /\ UNCHANGED <<execVars, heapVars, startVars>>
    /\ UNCHANGED <<pc, paths, eligible, tool_name, registered_count,
                   skipped_count, tools, registry, call, request>>
    /\ UNCHANGED <<confVars, poolVars>>

\* The rejection not counted.
SkipEndpoint_NotCounted ==
    /\ pc = "register"
    /\ idx < Len(paths)
    /\ LET e == paths[idx + 1] IN
        /\ e.kind \in {"op", "bad_op"}
        /\ IsHttpMethod(e.method)
        /\ ~should_register_endpoint(e.path, e.method, e.operation)
        /\ path' = e.path
        /\ method' = e.method
        /\ operation' = e.operation
    /\ eligible' = Some(FALSE)
    /\ idx' = idx + 1
    /\ UNCHANGED <<execVars, heapVars, startVars>>
    /\ UNCHANGED <<pc, paths, tool_name, registered_count, skipped_count,
                   tools, registry, call, request>>
    /\ UNCHANGED <<confVars, poolVars>>

\* api.py:363-366: rejected by should_register_endpoint
SkipEndpoint ==
    /\ pc = "register"
    /\ idx < Len(paths)
    /\ LET e == paths[idx + 1] IN
        /\ e.kind \in {"op", "bad_op"}
        /\ IsHttpMethod(e.method)
        /\ ~should_register_endpoint(e.path, e.method, e.operation)
        /\ path' = e.path
        /\ method' = e.method
        /\ operation' = e.operation
    /\ eligible' = Some(FALSE)
    /\ skipped_count' = skipped_count + 1
    /\ idx' = idx + 1
    /\ UNCHANGED <<execVars, heapVars, startVars>>
    /\ UNCHANGED <<pc, paths, tool_name, registered_count, tools, registry,
                   call, request>>
    /\ UNCHANGED <<confVars, poolVars>>

\* api.py:368-383: name, closure, mcp.add_tool, registered_count += 1
RegisterTool ==
    /\ pc = "register"
    /\ idx < Len(paths)
    /\ LET e == paths[idx + 1]
           t == Tool(normalize_tool_name(e.method, e.path),
                     e.path, e.method, e.operation)
       IN
        /\ e.kind = "op"
        /\ IsHttpMethod(e.method)
        /\ should_register_endpoint(e.path, e.method, e.operation)
        /\ path' = e.path
        /\ method' = e.method
        /\ operation' = e.operation
        /\ tool_name' = t.name
        /\ tools' = Append(tools, t)
        /\ registry' \in AddToolOutcomes(registry, t)
    /\ eligible' = Some(TRUE)
    /\ registered_count' = registered_count + 1
    /\ idx' = idx + 1
    /\ UNCHANGED <<execVars, heapVars, startVars>>
    /\ UNCHANGED <<pc, paths, skipped_count, call, request>>
    /\ UNCHANGED <<confVars, poolVars>>

\* api.py:385: the loop is over, the two counts are logged
FinishRegistration ==
    /\ pc = "register"
    /\ idx = Len(paths)
    /\ pc' = "registered"
    /\ UNCHANGED <<execVars, heapVars, startVars>>
    /\ UNCHANGED <<paths, idx, path, method, operation, eligible, tool_name,
                   registered_count, skipped_count, tools, registry, call,
                   request>>
    /\ UNCHANGED <<confVars, poolVars>>

\* server.py:132-141: initialize_mcp has returned (the document and the
\* locals of the registration pass are gone), mcp.run serves tool calls.
StartServing ==
    /\ pc = "registered"
    /\ pc' = "serving"
    /\ paths' = <<>>
    /\ idx' = 0
    /\ path' = <<>>
    /\ method' = <<>>
    /\ operation' = NoOperation
    /\ eligible' = None
    /\ tool_name' = <<>>
    /\ UNCHANGED <<execVars, heapVars, startVars>>
    /\ UNCHANGED <<registered_count, skipped_count, tools, registry, call,
                   request>>
    /\ UNCHANGED <<confVars, poolVars>>

\* The runtime calls the tool registered under `name`: dynamic_tool_func,
\* then make_api_request up to its requests.request call.  Without an
\* argument, `parameters` is the default object of api.py:305.
InvokeTool ==
    /\ pc = "serving"
    /\ \E name \in DOMAIN registry,
          arg \in { [omitted |-> TRUE, parameters |-> Some(default_mapping)] }
                  \cup { [omitted |-> FALSE, parameters |-> p] :
                             p \in ParameterInputs } :
          LET t == registry[name]
              args == dynamic_tool_func(t.path, t.method, t.operation,
                                        arg.parameters)
              after == ArgumentAfterCall(t.path, t.operation, arg.parameters)
          IN  /\ call' = Some([kind |-> "tool", name |-> name, tool |-> t,
                               omitted |-> arg.omitted,
                               parameters |-> arg.parameters, args |-> args])
              /\ request' = Some(OutboundRequest(args.url, args.method,
                                                 args.params, args.json_data))
              /\ caller_mapping' = IF arg.omitted THEN None ELSE after
              /\ default_mapping' = IF arg.omitted THEN after[1]
                                    ELSE default_mapping
    /\ sent' = sent + 1
    /\ pc' = "requested"
    /\ UNCHANGED <<outcome, result, effects, files, dir_exists, uuid_count,
                   startVars>>
    /\ UNCHANGED <<paths, idx, path, method, operation, eligible,
                   tool_name, registered_count, skipped_count, tools,
                   registry>>
    /\ UNCHANGED <<confVars, poolVars>>

\* make_api_request called directly, with any params and json_data.
DirectRequest ==
    /\ pc = "serving"
    /\ \E url \in DirectUrls, m \in DirectMethods,
          params \in DirectParams, json_data \in DirectJson :
          LET args == [url |-> url, method |-> m, params |-> params,
                       json_data |-> json_data]
          IN  /\ call' = Some([kind |-> "direct", name |-> <<>>,
                               tool |-> Tool(<<>>, <<>>, <<>>, NoOperation),
                               omitted |-> FALSE,
                               parameters |-> None, args |-> args])
              /\ request' = Some(OutboundRequest(url, m, params, json_data))
    /\ sent' = sent + 1
    /\ pc' = "requested"
    /\ UNCHANGED <<outcome, result, effects, files, dir_exists, uuid_count,
                   heapVars, startVars>>
    /\ UNCHANGED <<paths, idx, path, method, operation, eligible,
                   tool_name, registered_count, skipped_count, tools,
                   registry>>
    /\ UNCHANGED <<confVars, poolVars>>

\* The call returns its result to the caller; the Request Envelope is
\* discarded and the next call can be served.  Spec follows a call up to
\* its outbound request; SpecCall follows it to its result.
ReturnResult ==
    /\ pc = "requested"
    /\ pc' = "serving"
    /\ call' = None
    /\ request' = None
    /\ sent' = 0
    /\ caller_mapping' = None
    /\ UNCHANGED <<outcome, result, effects, files, dir_exists, uuid_count,
                   default_mapping, startVars>>
    /\ UNCHANGED <<paths, idx, path, method, operation, eligible, tool_name,
                   registered_count, skipped_count, tools, registry>>
    /\ UNCHANGED <<confVars, poolVars>>

Next ==
    \/ SkipEmptyPathItem
    \/ SkipMethod
    \/ SkipEndpoint
    \/ RegisterTool
    \/ FinishRegistration
    \/ StartServing
    \/ InvokeTool
    \/ DirectRequest
    \/ ReturnResult

Spec == Init /\ [][Next]_vars

----------------------------------------------------------------------------
(* make_api_request, api.py:195-290: what it does with the outcome of      *)
(* requests.request.                                                       *)

\* Settings.request_timeout, the default of the `timeout` argument
request_timeout == 30

\* Settings.filesystem_storage, resolved by validate_storage_path
filesystem_storage == <<"/", "s", "t", "o", "r", "a", "g", "e">>

\* A returned Python object: a dict with its fields, or something else.
DictObj(d) == [type |-> "dict", d |-> d]

\* The outcome of requests.request: a response or an exception.
HttpResponse(status, content_type, body) ==
    [kind |-> "response", status |-> status, content_type |-> content_type,
     body |-> body, exc |-> "", text |-> <<>>]

RequestRaises(exc, text) ==
    [kind |-> "exception", status |-> 0, content_type |-> <<>>,
     body |-> <<>>, exc |-> exc, text |-> text]

\* A response body: whether response.json() parses it, the object it
\* parses to, and response.text.
JsonBody(value) == [json |-> TRUE, value |-> value, text |-> <<>>]

TextBody(text) == [json |-> FALSE, value |-> DictObj(<<>>), text |-> text]

\* The 403 branch left out.
StatusEnvelope_No403(status, url) ==
    IF status = 404
    THEN Some(DictObj(
           [success |-> FALSE,
            error |-> <<"R", "e", "s", "o", "u", "r", "c", "e", " ", "n", "o", "t", " ", "f", "o", "u", "n", "d", ":", " ">> \o url,
            status_code |-> 404,
            description |->
              <<"T", "h", "e", " ", "r", "e", "q", "u", "e", "s", "t", "e", "d", " ", "r", "e", "s", "o", "u", "r", "c", "e", " ", "c", "o", "u", "l", "d", " ", "n", "o", "t", " ", "b", "e", " ", "f", "o", "u", "n", "d", " ", "o", "n", " ", "t", "h", "e", " ", "s", "e", "r", "v", "e", "r", ".">>]))
    ELSE IF status = 401
    THEN Some(DictObj(
           [success |-> FALSE,
            error |-> <<"A", "u", "t", "h", "e", "n", "t", "i", "c", "a", "t", "i", "o", "n", " ", "r", "e", "q", "u", "i", "r", "e", "d">>,
            status_code |-> 401,
            description |->
              <<"T", "h", "e", " ", "r", "e", "q", "u", "e", "s", "t", " ", "r", "e", "q", "u", "i", "r", "e", "s", " ", "v", "a", "l", "i", "d", " ", "a", "u", "t", "h", "e", "n", "t", "i", "c", "a", "t", "i", "o", "n", " ", "c", "r", "e", "d", "e", "n", "t", "i", "a", "l", "s", ".">>]))
    ELSE None

\* api.py:195-219: the envelope of a 404, 401 or 403 response
StatusEnvelope(status, url) ==
    IF status = 404
    THEN Some(DictObj(
           [success |-> FALSE,
            error |-> <<"R", "e", "s", "o", "u", "r", "c", "e", " ", "n", "o", "t", " ", "f", "o", "u", "n", "d", ":", " ">> \o url,
            status_code |-> 404,
            description |->
              <<"T", "h", "e", " ", "r", "e", "q", "u", "e", "s", "t", "e", "d", " ", "r", "e", "s", "o", "u", "r", "c", "e", " ", "c", "o", "u", "l", "d", " ", "n", "o", "t", " ", "b", "e", " ", "f", "o", "u", "n", "d", " ", "o", "n", " ", "t", "h", "e", " ", "s", "e", "r", "v", "e", "r", ".">>]))
    ELSE IF status = 401
    THEN Some(DictObj(
           [success |-> FALSE,
            error |-> <<"A", "u", "t", "h", "e", "n", "t", "i", "c", "a", "t", "i", "o", "n", " ", "r", "e", "q", "u", "i", "r", "e", "d">>,
            status_code |-> 401,
            description |->
              <<"T", "h", "e", " ", "r", "e", "q", "u", "e", "s", "t", " ", "r", "e", "q", "u", "i", "r", "e", "s", " ", "v", "a", "l", "i", "d", " ", "a", "u", "t", "h", "e", "n", "t", "i", "c", "a", "t", "i", "o", "n", " ", "c", "r", "e", "d", "e", "n", "t", "i", "a", "l", "s", ".">>]))
    ELSE IF status = 403
    THEN Some(DictObj(
           [success |-> FALSE,
            error |-> <<"A", "c", "c", "e", "s", "s", " ", "f", "o", "r", "b", "i", "d", "d", "e", "n">>,
            status_code |-> 403,
            description |->
              <<"Y", "o", "u", " ", "d", "o", " ", "n", "o", "t", " ", "h", "a", "v", "e", " ", "p", "e", "r", "m", "i", "s", "s", "i", "o", "n", " ", "t", "o", " ", "a", "c", "c", "e", "s", "s", " ", "t", "h", "i", "s", " ", "r", "e", "s", "o", "u", "r", "c", "e", ".">>]))
    ELSE None

\* raise_for_status taken to raise for every status of 300 and more.
RaisesForStatus_From300(status) == 300 <= status /\ status < 600

\* api.py:222, Response.raise_for_status (requests): HTTPError for a
\* client error (4xx) or a server error (5xx), nothing for any other status
RaisesForStatus(status) == 400 <= status /\ status < 600

\* response.reason for the statuses raise_for_status raises on
Reason(status) ==
    CASE status = 400 -> <<"B", "a", "d", " ", "R", "e", "q", "u", "e", "s", "t">>
      [] status = 401 -> <<"U", "n", "a", "u", "t", "h", "o", "r", "i", "z", "e", "d">>
      [] status = 403 -> <<"F", "o", "r", "b", "i", "d", "d", "e", "n">>
      [] status = 404 -> <<"N", "o", "t", " ", "F", "o", "u", "n", "d">>
      [] status = 500 -> <<"I", "n", "t", "e", "r", "n", "a", "l", " ", "S", "e", "r", "v", "e", "r", " ", "E", "r", "r", "o", "r">>
      [] OTHER -> <<>>

\* str(e) of the HTTPError raised by raise_for_status
HttpErrorText(status, url) ==
    NatToStr(status)
    \o (IF status < 500 THEN <<" ", "C", "l", "i", "e", "n", "t", " ", "E", "r", "r", "o", "r", ":", " ">> ELSE <<" ", "S", "e", "r", "v", "e", "r", " ", "E", "r", "r", "o", "r", ":", " ">>)
    \o Reason(status) \o <<" ", "f", "o", "r", " ", "u", "r", "l", ":", " ">> \o url

\* requests.exceptions: the classes an exception is an instance of
ExceptionClasses(exc) ==
    CASE exc = "ReadTimeout"      -> {"Timeout", "RequestException"}
      [] exc = "ConnectTimeout"   -> {"Timeout", "ConnectionError",
                                      "RequestException"}
      [] exc = "ConnectionError"  -> {"ConnectionError", "RequestException"}
      [] exc = "HTTPError"        -> {"RequestException"}
      [] exc = "TooManyRedirects" -> {"RequestException"}
      [] OTHER                    -> {}

\* The ConnectionError handler placed before the Timeout handler.
ExceptionEnvelope_ConnectionFirst(exc, text, url, timeout) ==
    IF "ConnectionError" \in ExceptionClasses(exc)
    THEN Some(DictObj(
           [success |-> FALSE,
            error |-> <<"C", "o", "n", "n", "e", "c", "t", "i", "o", "n", " ", "f", "a", "i", "l", "e", "d">>,
            status_code |-> 503,
            description |->
              <<"C", "o", "u", "l", "d", " ", "n", "o", "t", " ", "c", "o", "n", "n", "e", "c", "t", " ", "t", "o", " ">> \o url
              \o <<".", " ", "T", "h", "e", " ", "s", "e", "r", "v", "e", "r", " ", "m", "a", "y", " ", "b", "e", " ", "d", "o", "w", "n", " ", "o", "r", " ", "u", "n", "r", "e", "a", "c", "h", "a", "b", "l", "e", ".">>]))
    ELSE IF "Timeout" \in ExceptionClasses(exc)
    THEN Some(DictObj(
           [success |-> FALSE,
            error |-> <<"R", "e", "q", "u", "e", "s", "t", " ", "t", "i", "m", "e", "d", " ", "o", "u", "t">>,
            status_code |-> 408,
            description |->
              <<"T", "h", "e", " ", "r", "e", "q", "u", "e", "s", "t", " ", "t", "o", " ">> \o url \o <<" ", "t", "i", "m", "e", "d", " ", "o", "u", "t", " ", "a", "f", "t", "e", "r", " ">>
              \o NatToStr(timeout) \o <<" ", "s", "e", "c", "o", "n", "d", "s", ".">>]))
    ELSE IF "RequestException" \in ExceptionClasses(exc)
    THEN Some(DictObj(
           [success |-> FALSE,
            error |-> text,
            status_code |-> 500,
            description |-> <<"R", "e", "q", "u", "e", "s", "t", " ", "f", "a", "i", "l", "e", "d", ":", " ">> \o text]))
    ELSE None

\* api.py:267-290: the except clauses, in their order; None when no clause
\* matches and the exception leaves make_api_request
ExceptionEnvelope(exc, text, url, timeout) ==
    IF "Timeout" \in ExceptionClasses(exc)
    THEN Some(DictObj(
           [success |-> FALSE,
            error |-> <<"R", "e", "q", "u", "e", "s", "t", " ", "t", "i", "m", "e", "d", " ", "o", "u", "t">>,
            status_code |-> 408,
            description |->
              <<"T", "h", "e", " ", "r", "e", "q", "u", "e", "s", "t", " ", "t", "o", " ">> \o url \o <<" ", "t", "i", "m", "e", "d", " ", "o", "u", "t", " ", "a", "f", "t", "e", "r", " ">>
              \o NatToStr(timeout) \o <<" ", "s", "e", "c", "o", "n", "d", "s", ".">>]))
    ELSE IF "ConnectionError" \in ExceptionClasses(exc)
    THEN Some(DictObj(
           [success |-> FALSE,
            error |-> <<"C", "o", "n", "n", "e", "c", "t", "i", "o", "n", " ", "f", "a", "i", "l", "e", "d">>,
            status_code |-> 503,
            description |->
              <<"C", "o", "u", "l", "d", " ", "n", "o", "t", " ", "c", "o", "n", "n", "e", "c", "t", " ", "t", "o", " ">> \o url
              \o <<".", " ", "T", "h", "e", " ", "s", "e", "r", "v", "e", "r", " ", "m", "a", "y", " ", "b", "e", " ", "d", "o", "w", "n", " ", "o", "r", " ", "u", "n", "r", "e", "a", "c", "h", "a", "b", "l", "e", ".">>]))
    ELSE IF "RequestException" \in ExceptionClasses(exc)
    THEN Some(DictObj(
           [success |-> FALSE,
            error |-> text,
            status_code |-> 500,
            description |-> <<"R", "e", "q", "u", "e", "s", "t", " ", "f", "a", "i", "l", "e", "d", ":", " ">> \o text]))
    ELSE None

\* api.py:228
IsBinaryContentType(content_type) ==
    \/ StartsWith(content_type, <<"i", "m", "a", "g", "e", "/">>)
    \/ StartsWith(content_type, <<"a", "p", "p", "l", "i", "c", "a", "t", "i", "o", "n", "/", "o", "c", "t", "e", "t", "-", "s", "t", "r", "e", "a", "m">>)

\* s.split("/")[1] for an s that contains "/"
RECURSIVE UpToSlash(_)
UpToSlash(s) ==
    IF s = <<>> \/ s[1] = "/" THEN <<>> ELSE <<s[1]>> \o UpToSlash(Tail(s))

RECURSIVE AfterSlash(_)
AfterSlash(s) ==
    IF s = <<>> THEN <<>>
    ELSE IF s[1] = "/" THEN Tail(s) ELSE AfterSlash(Tail(s))

SplitSecond(s) == UpToSlash(AfterSlash(s))

\* The extension is "bin" whatever the content type.
FileExtension_AlwaysBin(content_type) == <<"b", "i", "n">>

\* api.py:234-237
FileExtension(content_type) ==
    IF StartsWith(content_type, <<"i", "m", "a", "g", "e", "/">>)
    THEN SplitSecond(content_type) ELSE <<"b", "i", "n">>

\* str(uuid.uuid4()): the k-th value drawn differs from all drawn before
Uuid(k) == <<"u">> \o NatToStr(k)

\* storage_path / filename (pathlib): an absolute filename replaces the
\* directory, an empty one or "." adds nothing
JoinPath(dir, filename) ==
    IF filename # <<>> /\ filename[1] = "/" THEN filename
    ELSE IF filename \in { <<>>, <<".">> } THEN dir
    ELSE dir \o <<"/">> \o filename

\* What make_api_request does once requests.request is over.
\*   out : the outcome of requests.request
\*   env : dir_exists, files, uuid_count, and io_ok: whether the file
\*         system lets mkdir, open and write succeed
\* The result is returned (kind "return") or an exception leaves the
\* function (kind "raise").
make_api_request(url, timeout, out, env) ==
    LET unchanged == [files |-> env.files, dir_exists |-> env.dir_exists,
                      uuid_count |-> env.uuid_count]
        returns(value, eff) ==
            [kind |-> "return", exc |-> "", value |-> value,
             effects |-> eff] @@ unchanged
        raises(exc, eff) ==
            [kind |-> "raise", exc |-> exc, value |-> DictObj(<<>>),
             effects |-> eff] @@ unchanged
        handled(exc, text, eff) ==
            IF ExceptionEnvelope(exc, text, url, timeout) # None
            THEN returns(ExceptionEnvelope(exc, text, url, timeout)[1], eff)
            ELSE raises(exc, eff)
    IN
    IF out.kind = "exception" THEN handled(out.exc, out.text, {})
    ELSE IF StatusEnvelope(out.status, url) # None
    THEN returns(StatusEnvelope(out.status, url)[1], {})
    ELSE IF RaisesForStatus(out.status)
    THEN handled("HTTPError", HttpErrorText(out.status, url), {})
    ELSE
    LET content_type == StrLower(out.content_type) IN
    IF IsBinaryContentType(content_type)
    THEN IF ~env.io_ok
         THEN handled("OSError", <<>>, {"content_type"})
         ELSE LET full_path ==
                      JoinPath(filesystem_storage,
                               Uuid(env.uuid_count + 1) \o <<".">>
                               \o FileExtension(content_type))
              IN  [kind |-> "return", exc |-> "",
                   value |-> DictObj(
                     [success |-> TRUE,
                      filename |-> full_path,
                      path |-> full_path,
                      content_type |-> content_type,
                      description |->
                        <<"T", "h", "e", " ", "b", "i", "n", "a", "r", "y", " ", "d", "a", "t", "a", " ", "h", "a", "s", " ", "b", "e", "e", "n", " ", "s", "a", "v", "e", "d", " ", "t", "o", ":", " ">>
                        \o full_path]),
                   effects |-> {"content_type", "write"}
                               \cup (IF env.dir_exists THEN {}
                                     ELSE {"mkdir"}),
                   files |-> (full_path :> out.body) @@ env.files,
                   dir_exists |-> TRUE,
                   uuid_count |-> env.uuid_count + 1]
    ELSE IF out.body.json
    THEN returns(out.body.value, {"content_type", "json"})
    ELSE returns(DictObj(
                   [success |-> TRUE,
                    data |-> out.body.text,
                    content_type |-> content_type,
                    description |-> <<"R", "e", "s", "p", "o", "n", "s", "e", " ", "i", "s", " ", "n", "o", "t", " ", "J", "S", "O", "N", " ", "d", "a", "t", "a">>]),
                 {"content_type", "json", "text"})

----------------------------------------------------------------------------
(* files.py: load_image and save_image.                                    *)

\* The filename used as it is given.
basename_Identity(s) == s

\* os.path.basename
RECURSIVE basename(_)
basename(s) ==
    IF \E i \in 1..Len(s) : s[i] = "/" THEN basename(AfterSlash(s)) ELSE s

\* The bytes img.save writes for an image in the given format
EncodedImage(format) == TextBody(format)

\* files.py:26-68.  `file` is what is at `path`: "missing", "unreadable"
\* (PILImage.open fails) or "image".  Every failure is re-raised as a
\* ValueError (files.py:66-68).
load_image(file) ==
    IF file = "image"
    THEN [kind |-> "return", exc |-> "",
          value |-> [type |-> "Image", d |-> <<>>]]
    ELSE [kind |-> "raise", exc |-> "ValueError", value |-> DictObj(<<>>)]

\* files.py:71-135.  image_data is "empty", "invalid" (PILImage.open
\* fails) or "image"; env as for make_api_request.  img.save fails when
\* the file system refuses the write and when full_path is a directory
\* (the storage directory itself or its parent).
save_image(image_data, filename, format, env) ==
    LET unchanged == [files |-> env.files, dir_exists |-> env.dir_exists,
                      uuid_count |-> env.uuid_count]
        returns(d) ==
            [kind |-> "return", exc |-> "", value |-> DictObj(d)]
    IN
    IF image_data = "empty"
    THEN returns([success |-> FALSE,
                  error |-> <<"N", "o", " ", "i", "m", "a", "g", "e", " ", "d", "a", "t", "a", " ", "p", "r", "o", "v", "i", "d", "e", "d">>,
                  description |-> <<"I", "m", "a", "g", "e", " ", "d", "a", "t", "a", " ", "i", "s", " ", "e", "m", "p", "t", "y", " ", "o", "r", " ", "N", "o", "n", "e">>])
         @@ unchanged
    ELSE IF ~env.dir_exists /\ ~env.io_ok
    THEN returns([success |-> FALSE,
                  error |-> <<"P", "e", "r", "m", "i", "s", "s", "i", "o", "n", " ", "d", "e", "n", "i", "e", "d">>,
                  description |->
                    <<"F", "a", "i", "l", "e", "d", " ", "t", "o", " ", "s", "a", "v", "e", " ", "i", "m", "a", "g", "e", " ", "d", "u", "e", " ", "t", "o", " ", "a", "n", " ", "e", "r", "r", "o", "r">>])
         @@ unchanged
    ELSE
    LET drawn == IF filename = None THEN 1 ELSE 0
        name == IF filename = None
                THEN Uuid(env.uuid_count + 1) \o <<".">> \o StrLower(format)
                ELSE filename[1]
        safe_filename == basename(name)
        full_path == JoinPath(filesystem_storage, safe_filename)
    IN
    IF \/ image_data = "invalid"
       \/ ~env.io_ok
       \/ safe_filename \in { <<>>, <<".">>, <<".", ".">> }
    THEN returns([success |-> FALSE,
                  error |-> <<"I", "n", "v", "a", "l", "i", "d", " ", "i", "m", "a", "g", "e", " ", "d", "a", "t", "a", ":", " ", "c", "a", "n", "n", "o", "t", " ", "i", "d", "e", "n", "t", "i", "f", "y", " ", "i", "m", "a", "g", "e">>,
                  description |->
                    <<"C", "o", "u", "l", "d", " ", "n", "o", "t", " ", "p", "r", "o", "c", "e", "s", "s", " ", "o", "r", " ", "s", "a", "v", "e", " ", "t", "h", "e", " ", "p", "r", "o", "v", "i", "d", "e", "d", " ", "i", "m", "a", "g", "e", " ", "d", "a", "t", "a">>])
         @@ [files |-> env.files, dir_exists |-> TRUE,
             uuid_count |-> env.uuid_count + drawn]
    ELSE returns([success |-> TRUE,
                  filename |-> safe_filename,
                  path |-> full_path,
                  description |->
                    <<"I", "m", "a", "g", "e", " ", "s", "u", "c", "c", "e", "s", "s", "f", "u", "l", "l", "y", " ", "s", "a", "v", "e", "d", " ", "t", "o", " ">> \o full_path])
         @@ [files |-> (full_path :> EncodedImage(format)) @@ env.files,
             dir_exists |-> TRUE,
             uuid_count |-> env.uuid_count + drawn]

----------------------------------------------------------------------------
(* SpecCall: tool calls followed from the call to its result.              *)

\* The number of random file names one behaviour draws
MaxFiles == 1

J_item == DictObj([id |-> 7])

J_list == [type |-> "list", d |-> <<>>]

Bodies == { JsonBody(J_item), JsonBody(J_list), TextBody(<<"o", "k">>) }

CT_json == <<"a", "p", "p", "l", "i", "c", "a", "t", "i", "o", "n", "/", "j", "s", "o", "n">>

CT_png == <<"I", "m", "a", "g", "e", "/", "P", "N", "G">>

CT_octet == <<"a", "p", "p", "l", "i", "c", "a", "t", "i", "o", "n", "/", "o", "c", "t", "e", "t", "-", "s", "t", "r", "e", "a", "m">>

CT_text == <<"t", "e", "x", "t", "/", "p", "l", "a", "i", "n">>

ContentTypes == { CT_json, CT_png, CT_octet, CT_text, <<>> }

Statuses == { 100, 200, 304, 400, 401, 403, 404, 500 }

\* What requests.request can produce.
Responses ==
    { HttpResponse(s, CT_json, JsonBody(J_item)) : s \in Statuses }
    \cup { HttpResponse(200, ct, b) : ct \in ContentTypes, b \in Bodies }
    \cup { HttpResponse(s, CT_png, TextBody(<<"o", "k">>)) : s \in {304, 404, 500} }

Failures ==
    { RequestRaises("ReadTimeout", <<"r", "e", "a", "d", " ", "t", "i", "m", "e", "d", " ", "o", "u", "t">>),
      RequestRaises("ConnectTimeout", <<"c", "o", "n", "n", "e", "c", "t", " ", "t", "i", "m", "e", "d", " ", "o", "u", "t">>),
      RequestRaises("ConnectionError", <<"c", "o", "n", "n", "e", "c", "t", "i", "o", "n", " ", "r", "e", "f", "u", "s", "e", "d">>),
      RequestRaises("TooManyRedirects", <<"E", "x", "c", "e", "e", "d", "e", "d", " ", "3", "0", " ", "r", "e", "d", "i", "r", "e", "c", "t", "s", ".">>) }

\* Arguments a caller can pass that are no mapping: falsy and truthy ones.
NonMappingInputs == { IntVal(0), IntVal(5), StrVal(<<"i", "d">>) }

Truthy(v) ==
    CASE v.type = "int"  -> v.n # 0
      [] v.type = "str"  -> v.s # <<>>
      [] v.type = "bool" -> v.n # 0
      [] OTHER -> TRUE

GetC == Tool(normalize_tool_name(<<"g", "e", "t">>, P_c_id), P_c_id, <<"g", "e", "t">>, OpA)

PostC ==
    Tool(normalize_tool_name(<<"P", "O", "S", "T">>, P_c_id_n), P_c_id_n, <<"P", "O", "S", "T">>, OpB)

CallRegistry == (GetC.name :> GetC) @@ (PostC.name :> PostC)

InitCall ==
    /\ pc = "serving"
    /\ paths = <<>>
    /\ idx = 0
    /\ path = <<>>
    /\ method = <<>>
    /\ operation = NoOperation
    /\ eligible = None
    /\ tool_name = <<>>
    /\ registered_count = 2
    /\ skipped_count = 0
    /\ tools = << GetC.name, PostC.name >>
    /\ registry = CallRegistry
    /\ call = None
    /\ request = None
    /\ sent = 0
    /\ outcome = None
    /\ result = None
    /\ effects = {}
    /\ files = <<>>
    /\ dir_exists \in BOOLEAN
    /\ uuid_count = 0
    /\ caller_mapping = None
    /\ default_mapping = EmptyDict
    /\ static_tools = StaticTools
    /\ spec = Some("document")
    /\ api_key = None
    /\ auth_token = None
    /\ calls = <<>>

\* A dynamic tool called with an argument that is no mapping
\* (api.py:312): a falsy one is replaced by {}, a truthy one has no
\* usable copy() and the call raises before any request is made.
InvokeToolNonMapping ==
    /\ pc = "serving"
    /\ \E name \in DOMAIN registry, v \in NonMappingInputs :
          LET t == registry[name]
              args == dynamic_tool_func(t.path, t.method, t.operation, None)
          IN  /\ call' = Some([kind |-> "tool", name |-> name, tool |-> t,
                               omitted |-> FALSE,
                               parameters |-> None,
                               args |-> args @@ [argument |-> v]])
              /\ IF Truthy(v)
                 THEN /\ pc' = "raised"
                      /\ request' = None
                      /\ sent' = sent
                      /\ result' = Some([kind |-> "raise",
                                         exc |-> "AttributeError",
                                         value |-> DictObj(<<>>)])
                 ELSE /\ pc' = "requested"
                      /\ request' = Some(OutboundRequest(args.url, args.method,
                                                     args.params,
                                                     args.json_data))
                      /\ sent' = sent + 1
                      /\ result' = None
    /\ UNCHANGED <<outcome, effects, files, dir_exists, uuid_count,
                   heapVars, startVars>>
    /\ UNCHANGED <<paths, idx, path, method, operation, eligible,
                   tool_name, registered_count, skipped_count, tools,
                   registry>>
    /\ UNCHANGED <<confVars, poolVars>>

\* A retry: the request is sent again after a failure.
Complete_Retry(out, io_ok) ==
    IF out.kind = "exception" /\ sent < 2
    THEN /\ pc' = "requested"
         /\ sent' = sent + 1
         /\ UNCHANGED <<outcome, result, effects, files, dir_exists,
                        uuid_count>>
    ELSE LET r == make_api_request(request[1].url, request_timeout, out,
                                   [files |-> files, dir_exists |-> dir_exists,
                                    uuid_count |-> uuid_count,
                                    io_ok |-> io_ok])
         IN  /\ pc' = IF r.kind = "return" THEN "returned" ELSE "raised"
             /\ outcome' = Some(out @@ [io_ok |-> io_ok])
             /\ result' = Some([kind |-> r.kind, exc |-> r.exc,
                                value |-> r.value])
             /\ effects' = r.effects
             /\ files' = r.files
             /\ dir_exists' = r.dir_exists
             /\ uuid_count' = r.uuid_count
             /\ sent' = sent

\* api.py:186-290: requests.request is over with outcome `out`, and
\* make_api_request runs to its end; nothing is sent again.
Complete(out, io_ok) ==
    LET r == make_api_request(request[1].url, request_timeout, out,
                              [files |-> files, dir_exists |-> dir_exists,
                               uuid_count |-> uuid_count, io_ok |-> io_ok])
    IN  /\ pc' = IF r.kind = "return" THEN "returned" ELSE "raised"
        /\ outcome' = Some(out @@ [io_ok |-> io_ok])
        /\ result' = Some([kind |-> r.kind, exc |-> r.exc, value |-> r.value])
        /\ effects' = r.effects
        /\ files' = r.files
        /\ dir_exists' = r.dir_exists
        /\ uuid_count' = r.uuid_count
        /\ sent' = sent

\* The server answers.
ReceiveResponse ==
    /\ pc = "requested"
    /\ \E out \in Responses, io_ok \in BOOLEAN :
          /\ uuid_count < MaxFiles \/ ~io_ok
             \/ ~IsBinaryContentType(StrLower(out.content_type))
          /\ io_ok \/ IsBinaryContentType(StrLower(out.content_type))
          /\ Complete(out, io_ok)
    /\ UNCHANGED <<call, request, heapVars, startVars>>
    /\ UNCHANGED <<paths, idx, path, method, operation, eligible,
                   tool_name, registered_count, skipped_count, tools,
                   registry>>
    /\ UNCHANGED <<confVars, poolVars>>

\* requests.request raises.
RequestFails ==
    /\ pc = "requested"
    /\ \E out \in Failures : Complete(out, TRUE)
    /\ UNCHANGED <<call, request, heapVars, startVars>>
    /\ UNCHANGED <<paths, idx, path, method, operation, eligible,
                   tool_name, registered_count, skipped_count, tools,
                   registry>>
    /\ UNCHANGED <<confVars, poolVars>>

LoadInputs == { "missing", "unreadable", "image" }

\* The runtime calls load_image.
CallLoadImage ==
    /\ pc = "serving"
    /\ \E file \in LoadInputs :
          LET r == load_image(file)
          IN  /\ call' = Some([kind |-> "load_image", name |-> <<"l", "o", "a", "d", "_", "i", "m", "a", "g", "e">>,
                               tool |-> Tool(<<>>, <<>>, <<>>, NoOperation),
                               omitted |-> FALSE, parameters |-> None,
                               args |-> [file |-> file]])
              /\ pc' = IF r.kind = "return" THEN "returned" ELSE "raised"
              /\ result' = Some(r)
    /\ UNCHANGED <<request, sent, outcome, effects, files, dir_exists,
                   uuid_count, heapVars, startVars>>
    /\ UNCHANGED <<paths, idx, path, method, operation, eligible,
                   tool_name, registered_count, skipped_count, tools,
                   registry>>
    /\ UNCHANGED <<confVars, poolVars>>

SaveData == { "empty", "invalid", "image" }

SaveNames ==
    { None, Some(<<"a", ".", "p", "n", "g">>), Some(<<".", ".", "/", "b", "/", "a", ".", "p", "n", "g">>), Some(<<"/", "e", "t", "c", "/", "a", ".", "p", "n", "g">>),
      Some(<<"b", "/">>), Some(<<".", ".">>) }

\* The runtime calls save_image.
CallSaveImage ==
    /\ pc = "serving"
    /\ \E image_data \in SaveData, filename \in SaveNames,
          io_ok \in BOOLEAN :
          LET r == save_image(image_data, filename, <<"P", "N", "G">>,
                              [files |-> files, dir_exists |-> dir_exists,
                               uuid_count |-> uuid_count, io_ok |-> io_ok])
          IN  /\ r.uuid_count <= MaxFiles
              /\ call' = Some([kind |-> "save_image", name |-> <<"s", "a", "v", "e", "_", "i", "m", "a", "g", "e">>,
                               tool |-> Tool(<<>>, <<>>, <<>>, NoOperation),
                               omitted |-> FALSE, parameters |-> None,
                               args |-> [image_data |-> image_data,
                                         filename |-> filename]])
              /\ pc' = "returned"
              /\ result' = Some([kind |-> r.kind, exc |-> r.exc,
                                 value |-> r.value])
              /\ files' = r.files
              /\ dir_exists' = r.dir_exists
              /\ uuid_count' = r.uuid_count
    /\ UNCHANGED <<request, sent, outcome, effects, heapVars, startVars>>
    /\ UNCHANGED <<paths, idx, path, method, operation, eligible,
                   tool_name, registered_count, skipped_count, tools,
                   registry>>
    /\ UNCHANGED <<confVars, poolVars>>

\* The result, or the exception, is with the runtime; the next call can
\* be served.  What the call wrote to the storage directory stays.
CallEnds ==
    /\ pc \in {"returned", "raised"}
    /\ pc' = "serving"
    /\ call' = None
    /\ request' = None
    /\ sent' = 0
    /\ outcome' = None
    /\ result' = None
    /\ effects' = {}
    /\ caller_mapping' = None
    /\ UNCHANGED <<files, dir_exists, uuid_count, default_mapping, startVars>>
    /\ UNCHANGED <<paths, idx, path, method, operation, eligible,
                   tool_name, registered_count, skipped_count, tools,
                   registry>>
    /\ UNCHANGED <<confVars, poolVars>>

NextCall ==
    \/ InvokeTool
    \/ InvokeToolNonMapping
    \/ DirectRequest
    \/ ReceiveResponse
    \/ RequestFails
    \/ CallLoadImage
    \/ CallSaveImage
    \/ CallEnds

SpecCall == InitCall /\ [][NextCall]_vars

----------------------------------------------------------------------------
(* SpecStartup: register_tools, from the static tools to mcp.run.          *)

\* What response.json() of the document request can be.  A shape says
\* what the value is; `entries` is the iteration of its "paths" mapping
\* when it has one.
\*   "document"  : an object whose "paths" is a mapping
\*   "no_paths"  : a non-empty object without "paths"
\*   "empty"     : {} or []
\*   "null"      : null
\*   "list"      : a non-empty list
\*   "paths_list": an object whose "paths" is a list or null
SpecValue(shape, entries) == [shape |-> shape, entries |-> entries]

\* `if spec:` (api.py:27)
SpecTruthy(s) == s # None /\ s[1].shape \notin {"empty", "null"}

\* spec.get("paths", {}) and paths.items() (api.py:352-353): whether they
\* raise AttributeError
PathsRaises(s) == s[1].shape \in {"list", "paths_list"}

\* The except clause left out: an HTTPError leaves fetch_openapi_spec.
fetch_openapi_spec_NoCatch(out) ==
    IF out.kind = "exception"
    THEN { [kind |-> "return", spec |-> None] }
    ELSE IF RaisesForStatus(out.status)
    THEN { [kind |-> "raise", spec |-> None] }
    ELSE IF out.body.json
    THEN { [kind |-> "return",
            spec |-> IF out.body.value.shape = "null" THEN None
                     ELSE Some(out.body.value)] }
    ELSE { [kind |-> "return", spec |-> None],
           [kind |-> "raise", spec |-> None] }

\* api.py:90-108.  The set of results the installed `requests` can give:
\* a body that is no JSON makes response.json() raise an exception that
\* is a RequestException from requests 2.27 on and a plain ValueError
\* before (setup.py pins no version), so it is caught or it leaves the
\* function.
fetch_openapi_spec(out) ==
    IF out.kind = "exception"
    THEN { [kind |-> "return", spec |-> None] }
    ELSE IF RaisesForStatus(out.status)
    THEN { [kind |-> "return", spec |-> None] }
    ELSE IF out.body.json
    THEN { [kind |-> "return",
            spec |-> IF out.body.value.shape = "null" THEN None
                     ELSE Some(out.body.value)] }
    ELSE { [kind |-> "return", spec |-> None],
           [kind |-> "raise", spec |-> None] }

StartupEntries ==
    { OpEntry(P_c_id, <<"g", "e", "t">>, OpA),
      OpEntry(P_c_id_n, <<"P", "O", "S", "T">>, OpB),
      OpEntry(P_x_stream, <<"g", "e", "t">>, OpA),
      EmptyEntry(P_c_id),
      BadItemEntry(P_c_id_n_plain),
      BadOpEntry(P_c_id_n_plain, <<"g", "e", "t">>),
      BadOpEntry(P_c_id_n_plain, <<"h", "e", "a", "d">>),
      BadOpEntry(P_x_stream, <<"g", "e", "t">>) }

StartupDocuments ==
    { d \in SeqsUpTo(StartupEntries, MaxOps) : IsDocument(d) }

StartupValues ==
    { SpecValue("document", d) : d \in StartupDocuments }
    \cup { SpecValue(s, <<>>) :
             s \in {"no_paths", "empty", "null", "list", "paths_list"} }

FetchStatuses == { 200, 304, 404, 500 }

\* What requests.get of the document URL can produce.
FetchOutcomes ==
    { HttpResponse(s, CT_json, JsonBody(v)) :
        s \in {200, 304}, v \in StartupValues }
    \cup { HttpResponse(s, CT_json,
                        JsonBody(SpecValue("document", <<>>))) :
             s \in FetchStatuses }
    \cup { HttpResponse(s, CT_text, TextBody(<<"o", "k">>)) : s \in FetchStatuses }
    \cup Failures

InitStartup ==
    /\ pc = "prompts"
    /\ paths = <<>>
    /\ idx = 0
    /\ path = <<>>
    /\ method = <<>>
    /\ operation = NoOperation
    /\ eligible = None
    /\ tool_name = <<>>
    /\ registered_count = 0
    /\ skipped_count = 0
    /\ tools = <<>>
    /\ registry = <<>>
    /\ call = None
    /\ request = None
    /\ sent = 0
    /\ outcome = None
    /\ result = None
    /\ effects = {}
    /\ files = <<>>
    /\ dir_exists = TRUE
    /\ uuid_count = 0
    /\ caller_mapping = None
    /\ default_mapping = EmptyDict
    /\ static_tools = <<>>
    /\ spec = None
    /\ api_key = None
    /\ auth_token = None
    /\ calls = <<>>

StartupFrame ==
    UNCHANGED <<paths, idx, path, method, operation, eligible, tool_name,
                registered_count, skipped_count, tools, registry, call,
                request, sent, result, effects, files, dir_exists,
                uuid_count, heapVars, confVars, poolVars>>

\* server.py:67-68, 76-98: register_prompts; the prompts are no tools
RegisterPrompts ==
    /\ pc = "prompts"
    /\ pc' = "analysis"
    /\ UNCHANGED <<outcome, startVars>>
    /\ StartupFrame

\* analysis.py:16-19
RegisterAnalysisTools ==
    /\ pc = "analysis"
    /\ static_tools' = static_tools
                       \o << "compute_average_rgb", "analyze_image_regions" >>
    /\ pc' = "files"
    /\ UNCHANGED <<outcome, spec>>
    /\ StartupFrame

\* register_file_tools called a second time.
RegisterFileTools_Twice ==
    /\ pc = "files"
    /\ static_tools' = static_tools \o << "load_image", "save_image" >>
                                    \o << "load_image", "save_image" >>
    /\ pc' = "api"
    /\ UNCHANGED <<outcome, spec>>
    /\ StartupFrame

\* files.py:20-23
RegisterFileTools ==
    /\ pc = "files"
    /\ static_tools' = static_tools \o << "load_image", "save_image" >>
    /\ pc' = "api"
    /\ UNCHANGED <<outcome, spec>>
    /\ StartupFrame

\* api.py:23
RegisterDownloadOntology ==
    /\ pc = "api"
    /\ static_tools' = static_tools \o << "download_ontology" >>
    /\ pc' = "fetch"
    /\ UNCHANGED <<outcome, spec>>
    /\ StartupFrame

\* api.py:26: spec = fetch_openapi_spec()
FetchSpec ==
    /\ pc = "fetch"
    /\ \E out \in FetchOutcomes : \E r \in fetch_openapi_spec(out) :
          /\ outcome' = Some(out)
          /\ spec' = r.spec
          /\ pc' = IF r.kind = "return" THEN "fetched" ELSE "crashed"
    /\ UNCHANGED static_tools
    /\ StartupFrame

\* api.py:27-30: no document, or a falsy one: logged, nothing registered
SkipRegistration ==
    /\ pc = "fetched"
    /\ ~SpecTruthy(spec)
    /\ pc' = "registered"
    /\ UNCHANGED <<outcome, startVars>>
    /\ StartupFrame

\* api.py:28, 349-353: register_openapi_endpoints_as_tools starts to
\* iterate over the paths of the document
BeginRegistration ==
    /\ pc = "fetched"
    /\ SpecTruthy(spec)
    /\ ~PathsRaises(spec)
    /\ pc' = "register"
    /\ paths' = spec[1].entries
    /\ UNCHANGED <<idx, path, method, operation, eligible, tool_name,
                   registered_count, skipped_count, tools, registry, call,
                   request, execVars, heapVars, startVars>>
    /\ UNCHANGED <<confVars, poolVars>>

\* api.py:352-353: spec.get or paths.items() raises AttributeError, which
\* nothing catches up to run_server
DocumentRaises ==
    /\ pc = "fetched"
    /\ SpecTruthy(spec)
    /\ PathsRaises(spec)
    /\ pc' = "crashed"
    /\ UNCHANGED <<outcome, startVars>>
    /\ StartupFrame

\* api.py:357 and 151: path_item.items() of a path item that is no
\* mapping, or operation.get of an operation that is no mapping (reached
\* once the method is one of the five and no excluded pattern matched),
\* raises AttributeError
EntryRaises ==
    /\ pc = "register"
    /\ idx < Len(paths)
    /\ LET e == paths[idx + 1] IN
        /\ \/ e.kind = "bad_item"
           \/ /\ e.kind = "bad_op"
              /\ IsHttpMethod(e.method)
              /\ should_register_endpoint(e.path, e.method, NoOperation)
        /\ path' = e.path
        /\ method' = e.method
    /\ pc' = "crashed"
    /\ UNCHANGED <<paths, idx, operation, eligible, tool_name,
                   registered_count, skipped_count, tools, registry, call,
                   request, execVars, heapVars, startVars>>
    /\ UNCHANGED <<confVars, poolVars>>

NextStartup ==
    \/ RegisterPrompts
    \/ RegisterAnalysisTools
    \/ RegisterFileTools
    \/ RegisterDownloadOntology
    \/ FetchSpec
    \/ SkipRegistration
    \/ BeginRegistration
    \/ DocumentRaises
    \/ EntryRaises
    \/ SkipEmptyPathItem
    \/ SkipMethod
    \/ SkipEndpoint
    \/ RegisterTool
    \/ FinishRegistration
    \/ StartServing
    \/ InvokeTool
    \/ ReturnResult

SpecStartup == InitStartup /\ [][NextStartup]_vars

----------------------------------------------------------------------------
(* api.py:33-87: download_ontology                                         *)

ontology_url == server_base_url \o <<"/", "o", "n", "t", "o", "l", "o", "g", "y", "/", "o", "n", "t", "o", "l", "o", "g", "y", ".", "t", "t", "l">>

ontology_path == JoinPath(filesystem_storage, <<"o", "n", "t", "o", "l", "o", "g", "y", ".", "t", "t", "l">>)

\* What download_ontology does once client.get is over.  `out` and `env`
\* are as for make_api_request; httpx raises HTTPStatusError for the 4xx
\* and 5xx statuses, and every exception ends in a failure envelope
\* (api.py:72-87).
download_ontology(out, env) ==
    LET unchanged == [files |-> env.files, dir_exists |-> env.dir_exists,
                      uuid_count |-> env.uuid_count]
        failure(prefix, text) ==
            [kind |-> "return", exc |-> "",
             value |-> DictObj([success |-> FALSE, data |-> <<>>,
                                error |-> prefix \o text,
                                description |->
                                  <<"F", "a", "i", "l", "e", "d", " ", "t", "o", " ", "d", "o", "w", "n", "l", "o", "a", "d", " ", "t", "h", "e", " ", "P", "A", "D", " ", "o", "n", "t", "o", "l", "o", "g", "y", " ", "f", "i", "l", "e">>]),
             path |-> None] @@ unchanged
    IN
    IF out.kind = "exception" THEN failure(<<"H", "T", "T", "P", " ", "e", "r", "r", "o", "r", ":", " ">>, out.text)
    ELSE IF RaisesForStatus(out.status)
    THEN failure(<<"H", "T", "T", "P", " ", "e", "r", "r", "o", "r", ":", " ">>, HttpErrorText(out.status, ontology_url))
    ELSE IF ~env.io_ok THEN failure(<<>>, <<"P", "e", "r", "m", "i", "s", "s", "i", "o", "n", " ", "d", "e", "n", "i", "e", "d">>)
    ELSE [kind |-> "return", exc |-> "",
          value |-> DictObj([success |-> TRUE, data |-> out.body.text,
                             error |-> <<>>,
                             description |->
                               <<"S", "u", "c", "c", "e", "s", "s", "f", "u", "l", "l", "y", " ", "d", "o", "w", "n", "l", "o", "a", "d", "e", "d", " ", "t", "h", "e", " ", "P", "A", "D", " ", "o", "n", "t", "o", "l", "o", "g", "y", " ", "f", "i", "l", "e", " ", "f", "r", "o", "m", " ">>
                               \o ontology_url \o <<" ", "a", "n", "d", " ", "c", "a", "c", "h", "e", "d", " ", "a", "t", " ">>
                               \o ontology_path \o <<".">>]),
          path |-> Some(ontology_path),
          files |-> (ontology_path :> out.body) @@ env.files,
          dir_exists |-> TRUE,
          uuid_count |-> env.uuid_count]

----------------------------------------------------------------------------
(* SpecStorage: invocations that write to the storage directory, running   *)
(* side by side.                                                           *)

\* The number of invocations of one behaviour
MaxCalls == 2

\* An invocation: the tool, its filename argument (save_image), how far it
\* is, the path it wrote and whether a file was at that path before.
Invocation(tool, filename) ==
    [tool |-> tool, filename |-> filename, stage |-> "begun",
     path |-> None, existed |-> FALSE]

StorageTools == { "dynamic", "save_image", "download_ontology" }

StorageNames == { None, Some(<<"a", ".", "p", "n", "g">>) }

InitStorage ==
    /\ pc = "serving"
    /\ paths = <<>>
    /\ idx = 0
    /\ path = <<>>
    /\ method = <<>>
    /\ operation = NoOperation
    /\ eligible = None
    /\ tool_name = <<>>
    /\ registered_count = 2
    /\ skipped_count = 0
    /\ tools = << GetC.name, PostC.name >>
    /\ registry = CallRegistry
    /\ call = None
    /\ request = None
    /\ sent = 0
    /\ outcome = None
    /\ result = None
    /\ effects = {}
    /\ files = <<>>
    /\ dir_exists \in BOOLEAN
    /\ uuid_count = 0
    /\ caller_mapping = None
    /\ default_mapping = EmptyDict
    /\ static_tools = StaticTools
    /\ spec = Some("document")
    /\ api_key = None
    /\ auth_token = None
    /\ calls = <<>>

StorageFrame ==
    UNCHANGED <<pc, paths, idx, path, method, operation, eligible, tool_name,
                registered_count, skipped_count, tools, registry, call,
                request, sent, outcome, result, effects, heapVars, startVars,
                confVars>>

\* The runtime starts a tool: a dynamic tool whose request will be
\* answered by an image, save_image with image data, or
\* download_ontology; the tool runs up to the point where it has its
\* bytes and has not touched the storage directory.
BeginInvocation ==
    /\ Len(calls) < MaxCalls
    /\ \E tool \in StorageTools, filename \in StorageNames :
          /\ tool # "save_image" => filename = None
          /\ calls' = Append(calls, Invocation(tool, filename))
    /\ UNCHANGED <<files, dir_exists, uuid_count>>
    /\ StorageFrame

\* What invocation c does to the storage directory: api.py:230-245,
\* files.py:93-113 or api.py:58-64.
StorageWrite(c, env) ==
    CASE c.tool = "dynamic" ->
           LET r == make_api_request(server_base_url \o P_c_id,
                                     request_timeout,
                                     HttpResponse(200, CT_png,
                                                  TextBody(<<"o", "k">>)),
                                     env)
           IN  [path |-> Some(r.value.d.path), files |-> r.files,
                dir_exists |-> r.dir_exists, uuid_count |-> r.uuid_count]
      [] c.tool = "save_image" ->
           LET r == save_image("image", c.filename, <<"P", "N", "G">>, env)
           IN  [path |-> Some(r.value.d.path), files |-> r.files,
                dir_exists |-> r.dir_exists, uuid_count |-> r.uuid_count]
      [] c.tool = "download_ontology" ->
           LET r == download_ontology(HttpResponse(200, CT_text,
                                                   TextBody(<<"t", "t", "l">>)),
                                      env)
           IN  [path |-> r.path, files |-> r.files,
                dir_exists |-> r.dir_exists, uuid_count |-> r.uuid_count]

\* Invocation i creates the directory if needed, names its file and
\* writes it.
WriteFile ==
    /\ \E i \in 1..Len(calls) :
          /\ calls[i].stage = "begun"
          /\ LET w == StorageWrite(calls[i],
                                   [files |-> files,
                                    dir_exists |-> dir_exists,
                                    uuid_count |-> uuid_count,
                                    io_ok |-> TRUE])
             IN  /\ files' = w.files
                 /\ dir_exists' = w.dir_exists
                 /\ uuid_count' = w.uuid_count
                 /\ calls' = [calls EXCEPT
                                ![i].stage = "written",
                                ![i].path = w.path,
                                ![i].existed = w.path[1] \in DOMAIN files]
    /\ StorageFrame

\* Invocation i returns its result.
ReturnInvocation ==
    /\ \E i \in 1..Len(calls) :
          /\ calls[i].stage = "written"
          /\ calls' = [calls EXCEPT ![i].stage = "returned"]
    /\ UNCHANGED <<files, dir_exists, uuid_count>>
    /\ StorageFrame

NextStorage ==
    \/ BeginInvocation
    \/ WriteFile
    \/ ReturnInvocation

SpecStorage == InitStorage /\ [][NextStorage]_vars

----------------------------------------------------------------------------
(* SpecAuth: the outbound requests and their authentication headers.       *)

openapi_spec_url == <<"h", "t", "t", "p", "s", ":", "/", "/", "p", "a", "d", ".", "c", "r", "c", ".", "n", "d", ".", "e", "d", "u", "/", "a", "p", "i", "-", "l", "d", "/", "v", "3", "/", "o", "p", "e", "n", "a", "p", "i", ".", "j", "s", "o", "n">>

\* What OPENBRIDGE_API_KEY / OPENBRIDGE_AUTH_TOKEN can be: unset, empty,
\* or a value.
ApiKeys == { None, Some(<<>>), Some(<<"k", "1">>) }

AuthTokens == { None, Some(<<>>), Some(<<"t", "1">>) }

InitAuth ==
    /\ pc = "fetch"
    /\ paths = <<>>
    /\ idx = 0
    /\ path = <<>>
    /\ method = <<>>
    /\ operation = NoOperation
    /\ eligible = None
    /\ tool_name = <<>>
    /\ registered_count = 0
    /\ skipped_count = 0
    /\ tools = <<>>
    /\ registry = <<>>
    /\ call = None
    /\ request = None
    /\ sent = 0
    /\ outcome = None
    /\ result = None
    /\ effects = {}
    /\ files = <<>>
    /\ dir_exists = TRUE
    /\ uuid_count = 0
    /\ caller_mapping = None
    /\ default_mapping = EmptyDict
    /\ static_tools = StaticTools
    /\ spec = None
    /\ api_key \in ApiKeys
    /\ auth_token \in AuthTokens
    /\ calls = <<>>

\* api.py:99-103: the requests.get of fetch_openapi_spec
SendDocumentRequest ==
    /\ pc = "fetch"
    /\ pc' = "fetching"
    /\ request' = Some([method |-> <<"G", "E", "T">>, url |-> openapi_spec_url,
                        params |-> None, json |-> None,
                        headers |-> get_headers(api_key, auth_token)])
    /\ UNCHANGED <<paths, idx, path, method, operation, eligible, tool_name,
                   registered_count, skipped_count, tools, registry, call,
                   execVars, heapVars, startVars, confVars, poolVars>>

\* api.py:26-28: the document arrives and its two endpoints, get /c/{id}
\* and POST /c/{id}/{n}, are registered.
DocumentRegistered ==
    /\ pc = "fetching"
    /\ pc' = "serving"
    /\ request' = None
    /\ spec' = Some("document")
    /\ tools' = << GetC.name, PostC.name >>
    /\ registry' = CallRegistry
    /\ registered_count' = 2
    /\ UNCHANGED <<paths, idx, path, method, operation, eligible, tool_name,
                   skipped_count, call, execVars, heapVars, static_tools,
                   confVars, poolVars>>

\* api.py:48-53: the client.get of download_ontology
SendOntologyRequest ==
    /\ pc = "serving"
    /\ pc' = "requested"
    /\ call' = Some([kind |-> "download_ontology",
                     name |-> <<"d", "o", "w", "n", "l", "o", "a", "d", "_", "o", "n", "t", "o", "l", "o", "g", "y">>,
                     tool |-> Tool(<<>>, <<>>, <<>>, NoOperation),
                     omitted |-> FALSE, parameters |-> None,
                     args |-> <<>>])
    /\ request' = Some([method |-> <<"G", "E", "T">>, url |-> ontology_url,
                        params |-> None, json |-> None,
                        headers |-> get_headers(api_key, auth_token)])
    /\ sent' = sent + 1
    /\ UNCHANGED <<paths, idx, path, method, operation, eligible, tool_name,
                   registered_count, skipped_count, tools, registry,
                   outcome, result, effects, files, dir_exists, uuid_count,
                   heapVars, startVars, confVars, poolVars>>

NextAuth ==
    \/ SendDocumentRequest
    \/ DocumentRegistered
    \/ InvokeTool
    \/ DirectRequest
    \/ SendOntologyRequest
    \/ ReturnResult

SpecAuth == InitAuth /\ [][NextAuth]_vars

----------------------------------------------------------------------------
(* analysis.py: compute_average_rgb and analyze_image_regions.             *)

\* str(n) for an int
IntToStr(n) == IF n < 0 THEN <<"-">> \o NatToStr(0 - n) ELSE NatToStr(n)

\* What is at image_path: nothing, a file PILImage.open rejects, or an
\* image.  An image has a size and, here, one colour for all its pixels.
NoFile == [kind |-> "missing", width |-> 0, height |-> 0, colour |-> <<>>]

BadFile == [kind |-> "unreadable", width |-> 0, height |-> 0, colour |-> <<>>]

ImageFile(w, h, rgb) ==
    [kind |-> "image", width |-> w, height |-> h, colour |-> rgb]

BoxKeys == {"x1", "y1", "x2", "y2"}

\* all(key in bbox for key in ["x1", "y1", "x2", "y2"])
HasAllKeys(bbox) == BoxKeys \subseteq DOMAIN bbox

\* str(bbox) for a bbox with the four keys, given in the order x1, y1,
\* x2, y2
BoxRepr(bbox) ==
    <<"{", "'", "x", "1", "'", ":", " ">> \o IntToStr(bbox.x1) \o <<",", " ", "'", "y", "1", "'", ":", " ">> \o IntToStr(bbox.y1)
    \o <<",", " ", "'", "x", "2", "'", ":", " ">> \o IntToStr(bbox.x2) \o <<",", " ", "'", "y", "2", "'", ":", " ">> \o IntToStr(bbox.y2)
    \o <<"}">>

\* The right and bottom edge of the image itself rejected.
InvalidBox_Strict(x1, y1, x2, y2, width, height) ==
    x1 < 0 \/ y1 < 0 \/ x2 >= width \/ y2 >= height \/ x1 >= x2 \/ y1 >= y2

\* analysis.py:80
InvalidBox(x1, y1, x2, y2, width, height) ==
    x1 < 0 \/ y1 < 0 \/ x2 > width \/ y2 > height \/ x1 >= x2 \/ y1 >= y2

\* The error without the path.
MissingPathError_NoPath(image_path) == <<"I", "m", "a", "g", "e", " ", "p", "a", "t", "h", " ", "d", "o", "e", "s", " ", "n", "o", "t", " ", "e", "x", "i", "s", "t">>

\* analysis.py:50 and 141
MissingPathError(image_path) == <<"I", "m", "a", "g", "e", " ", "p", "a", "t", "h", " ", "d", "o", "e", "s", " ", "n", "o", "t", " ", "e", "x", "i", "s", "t", ":", " ">> \o image_path

\* The four-field result of the analysis tools, with what the call did
\* to get it ("open": PILImage.open was called; "stats": pixel values
\* were read).
AnalysisResult(success, data, error, description, eff) ==
    [kind |-> "return", exc |-> "",
     value |-> DictObj([success |-> success, data |-> data,
                        error |-> error, description |-> description]),
     effects |-> eff]

\* analysis.py:22-118.  bbox is None or Some(mapping); file is what is at
\* image_path.
compute_average_rgb(bbox, image_path, file) ==
    IF file.kind = "missing"
    THEN AnalysisResult(FALSE, <<>>, MissingPathError(image_path),
                        <<"F", "a", "i", "l", "e", "d", " ", "t", "o", " ", "l", "o", "c", "a", "t", "e", " ", "t", "h", "e", " ", "s", "p", "e", "c", "i", "f", "i", "e", "d", " ", "i", "m", "a", "g", "e", " ", "f", "i", "l", "e", ".">>, {})
    ELSE IF bbox = None \/ bbox[1] = <<>> \/ ~HasAllKeys(bbox[1])
    THEN AnalysisResult(FALSE, <<>>,
           <<"B", "o", "u", "n", "d", "i", "n", "g", " ", "b", "o", "x", " ", "m", "u", "s", "t", " ", "c", "o", "n", "t", "a", "i", "n", " ", "'", "x", "1", "'", ",", " ", "'", "y", "1", "'", ",", " ", "'", "x", "2", "'", ",", " ", "a", "n", "d", " ", "'", "y", "2", "'", " ", "k", "e", "y", "s", ".">>,
           <<"I", "n", "v", "a", "l", "i", "d", " ", "b", "o", "u", "n", "d", "i", "n", "g", " ", "b", "o", "x", " ", "s", "p", "e", "c", "i", "f", "i", "c", "a", "t", "i", "o", "n", ".">>, {})
    ELSE IF file.kind = "unreadable"
    THEN AnalysisResult(FALSE, <<>>,
           <<"F", "a", "i", "l", "e", "d", " ", "t", "o", " ", "o", "p", "e", "n", " ", "i", "m", "a", "g", "e", ":", " ", "c", "a", "n", "n", "o", "t", " ", "i", "d", "e", "n", "t", "i", "f", "y", " ", "i", "m", "a", "g", "e", " ", "f", "i", "l", "e">>,
           <<"C", "o", "u", "l", "d", " ", "n", "o", "t", " ", "o", "p", "e", "n", " ", "o", "r", " ", "p", "r", "o", "c", "e", "s", "s", " ", "t", "h", "e", " ", "i", "m", "a", "g", "e", " ", "f", "i", "l", "e", ".">>, {"open"})
    ELSE
    LET b == bbox[1]
        x1 == b.x1
        y1 == b.y1
        x2 == b.x2
        y2 == b.y2
        width == file.width
        height == file.height
    IN
    IF InvalidBox(x1, y1, x2, y2, width, height)
    THEN AnalysisResult(FALSE, <<>>,
           <<"I", "n", "v", "a", "l", "i", "d", " ", "b", "o", "u", "n", "d", "i", "n", "g", " ", "b", "o", "x", " ", "c", "o", "o", "r", "d", "i", "n", "a", "t", "e", "s", ":", " ">> \o BoxRepr(b)
           \o <<" ", "f", "o", "r", " ", "i", "m", "a", "g", "e", " ", "s", "i", "z", "e", " ">> \o IntToStr(width) \o <<"x">>
           \o IntToStr(height),
           <<"B", "o", "u", "n", "d", "i", "n", "g", " ", "b", "o", "x", " ", "c", "o", "o", "r", "d", "i", "n", "a", "t", "e", "s", " ", "a", "r", "e", " ", "o", "u", "t", "s", "i", "d", "e", " ", "i", "m", "a", "g", "e", " ", "d", "i", "m", "e", "n", "s", "i", "o", "n", "s", " ", "o", "r", " ", "i", "n", "v", "a", "l", "i", "d", ".">>,
           {"open"})
    ELSE AnalysisResult(TRUE,
           [avg_r |-> file.colour[1],
            avg_g |-> file.colour[2],
            avg_b |-> file.colour[3],
            region_size |-> [width |-> x2 - x1, height |-> y2 - y1]],
           <<>>,
           <<"C", "o", "m", "p", "u", "t", "e", "d", " ", "a", "v", "e", "r", "a", "g", "e", " ", "R", "G", "B", " ", "v", "a", "l", "u", "e", "s", " ", "f", "o", "r", " ", "t", "h", "e", " ", "s", "p", "e", "c", "i", "f", "i", "e", "d", " ", "b", "o", "u", "n", "d", "i", "n", "g", " ", "b", "o", "x", " ", "(">>
           \o IntToStr(x2 - x1) \o <<"x">> \o IntToStr(y2 - y1)
           \o <<" ", "p", "i", "x", "e", "l", "s", ")", ".">>,
           {"open", "stats"})

Min(a, b) == IF a < b THEN a ELSE b

Max(a, b) == IF a > b THEN a ELSE b

\* A region of the `regions` argument: each of its keys may be absent
\* (None).
Region(name, bbox, metrics) ==
    [name |-> name, bbox |-> bbox, metrics |-> metrics]

valid_metrics == << "avg", "std", "min", "max", "median", "mode" >>

\* analysis.py:170: the requested metrics that are valid ones
RequestedMetrics(region) ==
    LET asked == IF region.metrics = None THEN << "avg" >>
                 ELSE region.metrics[1]
    IN  { asked[i] : i \in 1..Len(asked) }
        \cap { valid_metrics[i] : i \in 1..Len(valid_metrics) }

\* analysis.py:215-229 for a channel whose pixels all have the value c
ChannelResults(metrics, c) ==
    [m \in metrics |-> IF m = "std" THEN 0 ELSE c]

\* analysis.py:186-189: the coordinates moved into the image
ClampBox(b, width, height) ==
    LET x1 == Max(0, Min(b.x1, width - 1))
        y1 == Max(0, Min(b.y1, height - 1))
    IN  [x1 |-> x1, y1 |-> y1,
         x2 |-> Max(x1 + 1, Min(b.x2, width)),
         y2 |-> Max(y1 + 1, Min(b.y2, height))]

\* analysis.py:164: the name of the k-th region (k counted from 1)
RegionName(region, k) ==
    IF region.name = None THEN <<"r", "e", "g", "i", "o", "n", "_">> \o NatToStr(k)
    ELSE region.name[1]

\* analysis.py:165-231: the entry of `results` for one region
RegionResult(region, file) ==
    LET bbox == IF region.bbox = None THEN <<>> ELSE region.bbox[1]
        metrics == RequestedMetrics(region)
    IN
    IF ~HasAllKeys(bbox)
    THEN [error |-> <<"I", "n", "v", "a", "l", "i", "d", " ", "b", "o", "u", "n", "d", "i", "n", "g", " ", "b", "o", "x", " ", "s", "p", "e", "c", "i", "f", "i", "c", "a", "t", "i", "o", "n">>, valid |-> FALSE]
    ELSE LET c == ClampBox(bbox, file.width, file.height)
         IN  [bbox |-> c,
              size |-> [width |-> c.x2 - c.x1, height |-> c.y2 - c.y1],
              channels |-> [r |-> ChannelResults(metrics, file.colour[1]),
                            g |-> ChannelResults(metrics, file.colour[2]),
                            b |-> ChannelResults(metrics, file.colour[3])],
              valid |-> TRUE]

\* analysis.py:162-231: `results` after the regions from the k-th on
RECURSIVE RegionResults(_, _, _, _)
RegionResults(regions, k, file, results) ==
    IF k > Len(regions) THEN results
    ELSE RegionResults(regions, k + 1, file,
           (RegionName(regions[k], k) :> RegionResult(regions[k], file))
           @@ results)

\* analysis.py:121-246
analyze_image_regions(image_path, regions, file) ==
    IF file.kind = "missing"
    THEN AnalysisResult(FALSE, <<>>, MissingPathError(image_path),
                        <<"F", "a", "i", "l", "e", "d", " ", "t", "o", " ", "l", "o", "c", "a", "t", "e", " ", "t", "h", "e", " ", "s", "p", "e", "c", "i", "f", "i", "e", "d", " ", "i", "m", "a", "g", "e", " ", "f", "i", "l", "e", ".">>, {})
    ELSE IF file.kind = "unreadable"
    THEN AnalysisResult(FALSE, <<>>,
           <<"F", "a", "i", "l", "e", "d", " ", "t", "o", " ", "o", "p", "e", "n", " ", "i", "m", "a", "g", "e", ":", " ", "c", "a", "n", "n", "o", "t", " ", "i", "d", "e", "n", "t", "i", "f", "y", " ", "i", "m", "a", "g", "e", " ", "f", "i", "l", "e">>,
           <<"C", "o", "u", "l", "d", " ", "n", "o", "t", " ", "o", "p", "e", "n", " ", "o", "r", " ", "p", "r", "o", "c", "e", "s", "s", " ", "t", "h", "e", " ", "i", "m", "a", "g", "e", " ", "f", "i", "l", "e", ".">>, {"open"})
    ELSE
    LET results == RegionResults(regions, 1, file, <<>>)
    IN  AnalysisResult(TRUE, results, <<>>,
          <<"A", "n", "a", "l", "y", "z", "e", "d", " ">> \o NatToStr(Cardinality(DOMAIN results))
          \o <<" ", "r", "e", "g", "i", "o", "n", "s", " ", "i", "n", " ", "t", "h", "e", " ", "i", "m", "a", "g", "e", ".">>,
          {"open"} \cup (IF \E n \in DOMAIN results : results[n].valid
                         THEN {"stats"} ELSE {}))

----------------------------------------------------------------------------
(* SpecAnalysis: the analysis tools applied to their arguments.            *)

\* The number of regions in one call of analyze_image_regions
MaxRegions == 2

ImagePath == <<"c", "a", "r", "d", ".", "p", "n", "g">>

Colour == << 10, 20, 30 >>

ImageFiles == { NoFile, BadFile, ImageFile(100, 100, Colour),
                ImageFile(50, 12, Colour) }

Coordinates == { -1, 0, 10, 50, 100, 101 }

Box(x1, y1, x2, y2) == [x1 |-> x1, y1 |-> y1, x2 |-> x2, y2 |-> y2]

\* The bbox argument of compute_average_rgb: absent, empty, without y2,
\* or with the four keys.
BoxInputs ==
    { None, Some(<<>>), Some([x1 |-> 10, y1 |-> 10, x2 |-> 50]) }
    \cup { Some(Box(x1, y1, x2, y2)) :
             x1 \in Coordinates, y1 \in Coordinates,
             x2 \in Coordinates, y2 \in Coordinates }

RegionBoxes ==
    { None,
      Some([x1 |-> 10, y1 |-> 10, x2 |-> 50]),
      Some(Box(10, 10, 50, 50)),
      Some(Box(-1, 0, 10, 10)),
      Some(Box(0, 0, 101, 50)),
      Some(Box(50, 10, 10, 50)) }

RegionInputs ==
    { Region(None, b, None) : b \in RegionBoxes }
    \cup { Region(Some(<<"a">>), b, Some(<< "avg", "std", "sum" >>)) :
             b \in { Some(Box(10, 10, 50, 50)),
                     Some([x1 |-> 10, y1 |-> 10, x2 |-> 50]) } }

RegionLists == SeqsUpTo(RegionInputs, MaxRegions)

\* A call of an analysis tool: the tool, its arguments, and what is at
\* image_path.
AnalysisCall(tool, bbox, regions, file) ==
    [kind |-> tool, name |-> <<>>,
     tool |-> Tool(<<>>, <<>>, <<>>, NoOperation),
     omitted |-> FALSE, parameters |-> None,
     args |-> [bbox |-> bbox, regions |-> regions,
               image_path |-> ImagePath, file |-> file]]

AnalysisCalls ==
    { AnalysisCall("compute_average_rgb", b, <<>>, f) :
        b \in BoxInputs, f \in ImageFiles }
    \cup { AnalysisCall("analyze_image_regions", None, rs, f) :
             rs \in RegionLists, f \in ImageFiles }

InitAnalysis ==
    /\ pc = "analysis_input"
    /\ call \in { Some(c) : c \in AnalysisCalls }
    /\ path = <<>>
    /\ method = <<>>
    /\ operation = NoOperation
    /\ eligible = None
    /\ tool_name = <<>>
    /\ paths = <<>>
    /\ idx = 0
    /\ registered_count = 0
    /\ skipped_count = 0
    /\ tools = <<>>
    /\ registry = <<>>
    /\ request = None
    /\ sent = 0
    /\ outcome = None
    /\ result = None
    /\ effects = {}
    /\ files = <<>>
    /\ dir_exists = TRUE
    /\ uuid_count = 0
    /\ caller_mapping = None
    /\ default_mapping = EmptyDict
    /\ static_tools = StaticTools
    /\ spec = None
    /\ api_key = None
    /\ auth_token = None
    /\ calls = <<>>

AnalysisFrame ==
    UNCHANGED <<paths, idx, path, method, operation, eligible, tool_name,
                registered_count, skipped_count, tools, registry, call,
                request, sent, outcome, files, dir_exists, uuid_count,
                heapVars, startVars, confVars, poolVars>>

CallComputeAverageRgb ==
    /\ pc = "analysis_input"
    /\ call[1].kind = "compute_average_rgb"
    /\ LET a == call[1].args
           r == compute_average_rgb(a.bbox, a.image_path, a.file)
       IN  /\ result' = Some([kind |-> r.kind, exc |-> r.exc,
                              value |-> r.value])
           /\ effects' = r.effects
    /\ pc' = "analysed"
    /\ AnalysisFrame

CallAnalyzeImageRegions ==
    /\ pc = "analysis_input"
    /\ call[1].kind = "analyze_image_regions"
    /\ LET a == call[1].args
           r == analyze_image_regions(a.image_path, a.regions, a.file)
       IN  /\ result' = Some([kind |-> r.kind, exc |-> r.exc,
                              value |-> r.value])
           /\ effects' = r.effects
    /\ pc' = "analysed"
    /\ AnalysisFrame

NextAnalysis ==
    \/ CallComputeAverageRgb
    \/ CallAnalyzeImageRegions

SpecAnalysis == InitAnalysis /\ [][NextAnalysis]_vars

----------------------------------------------------------------------------
(* Claims about normalize_tool_name (SpecName). *)

HasUpper(s) == \E i \in 1..Len(s) : \E k \in 1..26 : s[i] = UpperLetters[k]

HasChar(s, c) == \E i \in 1..Len(s) : s[i] = c

\* C2: for every (method, path) that passes the endpoint filter, the
\* identifier is non-empty and has no space, '/', '{', '}' or '-'.
C2_IdentifierWellFormed ==
    ( /\ pc = "named"
      /\ IsHttpMethod(method)
      /\ should_register_endpoint(path, method, operation) )
    => /\ Len(tool_name) > 0
       /\ \A i \in 1..Len(tool_name) :
              tool_name[i] \notin {" ", "/", "{", "}", "-"}

C2_Witness ==
    /\ pc = "named"
    /\ IsHttpMethod(method)
    /\ should_register_endpoint(path, method, operation)
    /\ HasChar(path, "-")
    /\ HasChar(path, "{")
    /\ HasChar(path, " ")
    /\ Len(tool_name) > 0

\* C3 as claimed: the identifier never contains an upper-case character,
\* whatever the method and the path.
C3_NoUpperCase == pc = "named" => ~HasUpper(tool_name)

\* C3 as amended: only the method is lower-cased; the letter case of the
\* path is kept, so the identifier has an upper-case character exactly
\* when the path has one.
C3_PathCaseKept == pc = "named" => (HasUpper(tool_name) <=> HasUpper(path))

C3_Witness ==
    /\ pc = "named"
    /\ HasUpper(method)
    /\ HasUpper(path)
    /\ HasUpper(tool_name)

\* C4: the identifier has no two consecutive underscores and does not
\* start with an underscore, whatever the method and the path.
C4_NoDoubleUnderscore ==
    pc = "named" =>
        /\ ~Contains(tool_name, <<"_", "_">>)
        /\ (tool_name = <<>> \/ tool_name[1] # "_")

----------------------------------------------------------------------------
(* Claims about should_register_endpoint (SpecFilter). *)

\* pat occurs in s when letter case is ignored
ContainsIgnoringCase(s, pat) ==
    \E i \in 0..(Len(s) - Len(pat)) :
        \A k \in 1..Len(pat) : LowerChar(s[i + k]) = LowerChar(pat[k])

ExcludedPath(p) ==
    \/ ContainsIgnoringCase(p, <<"s", "t", "r", "e", "a", "m">>)
    \/ ContainsIgnoringCase(p, <<"w", "e", "b", "p", "a", "g", "e">>)

DeclaresBinary(op) ==
    \E r \in 1..Len(op.responses) :
        \E mime \in op.responses[r].content :
            \E prefix \in { <<"i", "m", "a", "g", "e", "/">>, <<"a", "p", "p", "l", "i", "c", "a", "t", "i", "o", "n", "/", "o", "c", "t", "e", "t", "-", "s", "t", "r", "e", "a", "m">>,
                            <<"a", "p", "p", "l", "i", "c", "a", "t", "i", "o", "n", "/", "p", "d", "f">> } :
                /\ Len(mime) >= Len(prefix)
                /\ \A k \in 1..Len(prefix) : mime[k] = prefix[k]

\* C5: a path that contains "stream" or "webpage" in any letter case is
\* rejected, whatever the method and the declared content types, also when
\* the path contains "download-image".
C5_ExcludedPathRejected ==
    (pc = "filtered" /\ ExcludedPath(path)) => eligible = Some(FALSE)

C5_Witness ==
    /\ pc = "filtered"
    /\ Contains(path, <<"S", "t", "r", "e", "a", "m">>)
    /\ Contains(path, <<"d", "o", "w", "n", "l", "o", "a", "d", "-", "i", "m", "a", "g", "e">>)
    /\ DeclaresBinary(operation)
    /\ eligible = Some(FALSE)

\* C6: for a path that matches no excluded substring, an operation that
\* declares a binary content type is rejected unless the path contains
\* "download-image", in which case it is accepted; an operation that
\* declares no binary content type is accepted.
C6_BinaryRule ==
    (pc = "filtered" /\ ~ExcludedPath(path)) =>
        /\ (DeclaresBinary(operation) /\ ~Contains(path, <<"d", "o", "w", "n", "l", "o", "a", "d", "-", "i", "m", "a", "g", "e">>))
               => eligible = Some(FALSE)
        /\ (DeclaresBinary(operation) /\ Contains(path, <<"d", "o", "w", "n", "l", "o", "a", "d", "-", "i", "m", "a", "g", "e">>))
               => eligible = Some(TRUE)
        /\ ~DeclaresBinary(operation) => eligible = Some(TRUE)

C6_Witness ==
    /\ pc = "filtered"
    /\ ~ExcludedPath(path)
    /\ DeclaresBinary(operation)
    /\ Contains(path, <<"d", "o", "w", "n", "l", "o", "a", "d", "-", "i", "m", "a", "g", "e">>)
    /\ eligible = Some(TRUE)

----------------------------------------------------------------------------
(* Claims about the registration pass (Spec). *)

\* C1: after the pass, no two registered dynamic tools share an
\* identifier: two eligible (method, path) pairs never reach mcp.add_tool
\* under the same name.
C1_IdentifiersUnique ==
    \A i, j \in 1..Len(tools) : i # j => tools[i].name # tools[j].name

OperationEntries(d) == { i \in 1..Len(d) : d[i].kind = "op" }

\* the operations of d that have one of the five methods
MethodEntries(d) == { i \in OperationEntries(d) : IsHttpMethod(d[i].method) }

\* rejected by the excluded-substring rule or the binary content type rule
RuleRejected(e) ==
    \/ ExcludedPath(e.path)
    \/ (DeclaresBinary(e.operation) /\ ~Contains(e.path, <<"d", "o", "w", "n", "l", "o", "a", "d", "-", "i", "m", "a", "g", "e">>))

NoOtherMethodRegistered ==
    \A i \in 1..Len(tools) :
        StrLower(tools[i].method) \in
            { <<"g", "e", "t">>, <<"p", "o", "s", "t">>, <<"p", "u", "t">>, <<"d", "e", "l", "e", "t", "e">>, <<"p", "a", "t", "c", "h">> }

\* C7 as claimed: no operation with another method is registered, and when
\* the pass ends skipped_count counts every rejected operation (method,
\* excluded substring, binary content type), registered_count the add_tool
\* calls, so that registered + skipped is the number of operations.
C7_EveryRejectionCounted ==
    /\ NoOtherMethodRegistered
    /\ pc = "registered" =>
          /\ registered_count = Len(tools)
          /\ skipped_count =
                 Cardinality({ i \in OperationEntries(paths) :
                                 \/ ~IsHttpMethod(paths[i].method)
                                 \/ RuleRejected(paths[i]) })
          /\ registered_count + skipped_count =
                 Cardinality(OperationEntries(paths))

\* C7 as amended: no operation with another method is registered; such an
\* operation is passed over without being counted.  When the pass ends
\* skipped_count counts the operations with one of the five methods that
\* should_register_endpoint rejected (excluded substring, binary content
\* type), registered_count the add_tool calls, and registered + skipped is
\* the number of operations with one of the five methods.
C7_FilterRejectionsCounted ==
    /\ NoOtherMethodRegistered
    /\ pc = "registered" =>
          /\ registered_count = Len(tools)
          /\ skipped_count =
                 Cardinality({ i \in MethodEntries(paths) :
                                 RuleRejected(paths[i]) })
          /\ registered_count + skipped_count =
                 Cardinality(MethodEntries(paths))

C7_Witness ==
    /\ pc = "registered"
    /\ \E i \in OperationEntries(paths) : ~IsHttpMethod(paths[i].method)
    /\ skipped_count = 1
    /\ Cardinality(OperationEntries(paths)) = 2

----------------------------------------------------------------------------
(* Claims about tool calls (Spec). *)

\* the names an operation declares with location "path"
PathNames(op) ==
    { op.parameters[i].name :
          i \in { k \in 1..Len(op.parameters) : op.parameters[k].in = "path" } }

\* the mapping a caller supplied
Supplied(parameters) == IF parameters = None THEN EmptyDict ELSE parameters[1]

\* A URL template read once, left to right: a token {name} whose name is in
\* `names` and in the mapping is replaced by the string form of its value,
\* every other character is kept.
RECURSIVE ExpandTemplate(_, _, _)
ExpandTemplate(t, names, given) ==
    IF t = <<>> THEN <<>>
    ELSE IF t[1] = "{" /\ \E j \in 2..Len(t) : t[j] = "}"
         THEN LET j == CHOOSE k \in 2..Len(t) :
                           /\ t[k] = "}"
                           /\ \A l \in 2..(k - 1) : t[l] # "}"
                  name == SubSeq(t, 2, j - 1)
              IN  (IF name \in names /\ name \in DOMAIN given
                   THEN Str(given[name]) ELSE SubSeq(t, 1, j))
                  \o ExpandTemplate(SubSeq(t, j + 1, Len(t)), names, given)
         ELSE <<t[1]>> \o ExpandTemplate(Tail(t), names, given)

\* the parameter set a request forwards: the query parameters or the body
Forwarded(r) == IF r.params # None THEN r.params[1]
                ELSE IF r.json # None THEN r.json[1] ELSE EmptyDict

\* C8: the tool registered under the identifier derived from (m, p) issues
\* its request with method m to server_base_url + p (path parameters
\* substituted), whatever other operations the document holds.
C8_BoundToOwnOperation ==
    (pc = "requested" /\ call[1].kind = "tool") =>
        \A i \in 1..Len(tools) :
            tools[i].name = call[1].name =>
                /\ request[1].method = StrUpper(tools[i].method)
                /\ request[1].url =
                       server_base_url \o
                       ExpandTemplate(tools[i].path,
                                      PathNames(tools[i].operation),
                                      Supplied(call[1].parameters))

\* C9: in a tool call, every supplied name that the operation declares
\* with location "path" is absent from the forwarded parameters and its
\* string form stands in the URL in place of {name}; every other supplied
\* name is forwarded with its value and never substituted.  For GET
\* /c/{id} with path parameter id and query parameter verbose, the call
\* {"id": 7, "verbose": true} requests .../c/7 with only verbose as a
\* query parameter and no body.
C9_PathParametersSubstituted ==
    (pc = "requested" /\ call[1].kind = "tool") =>
        LET t == call[1].tool
            given == Supplied(call[1].parameters)
            r == request[1]
        IN  /\ DOMAIN Forwarded(r) = (DOMAIN given) \ PathNames(t.operation)
            /\ \A k \in DOMAIN Forwarded(r) : Forwarded(r)[k] = given[k]
            /\ r.url = server_base_url \o
                       ExpandTemplate(t.path, PathNames(t.operation), given)
            /\ ( /\ t.path = P_c_id
                 /\ t.method = <<"g", "e", "t">>
                 /\ t.operation = OpA
                 /\ given = M_id_verbose )
               => /\ r.url = <<"h", "t", "t", "p", "s", ":", "/", "/", "p", "a", "d", ".", "c", "r", "c", ".", "n", "d", ".", "e", "d", "u", "/", "c", "/", "7">>
                  /\ r.method = <<"G", "E", "T">>
                  /\ r.params = Some((K_verbose :> BoolVal(TRUE)))
                  /\ r.json = None

C9_Witness ==
    /\ pc = "requested"
    /\ call[1].kind = "tool"
    /\ call[1].tool.path = P_c_id
    /\ call[1].tool.method = <<"g", "e", "t">>
    /\ call[1].tool.operation = OpA
    /\ call[1].parameters = Some(M_id_verbose)
    /\ request[1].url = <<"h", "t", "t", "p", "s", ":", "/", "/", "p", "a", "d", ".", "c", "r", "c", ".", "n", "d", ".", "e", "d", "u", "/", "c", "/", "7">>

\* C10: whatever params and json_data are passed, by a tool or by a direct
\* caller, the outbound request carries query parameters only when the
\* method is GET in any letter case, a JSON body only when it is not, and
\* never both.
C10_QueryOrBody ==
    pc = "requested" =>
        LET r == request[1]
            isGet == StrLower(call[1].args.method) = <<"g", "e", "t">>
        IN  /\ r.params # None => isGet
            /\ r.json # None => ~isGet
            /\ ~(r.params # None /\ r.json # None)

C10_Witness ==
    /\ pc = "requested"
    /\ call[1].kind = "direct"
    /\ call[1].args.method = <<"g", "e", "t">>
    /\ call[1].args.params # None
    /\ call[1].args.json_data # None
    /\ request[1].params # None
    /\ request[1].json = None

----------------------------------------------------------------------------
(* C11: the caller's mapping and the shared default mapping               *)

InCall == pc \in {"requested", "returned", "raised"}

----------------------------------------------------------------------------
(* C12..C16: make_api_request                                              *)

\* make_api_request has just ended on a response.
Answered ==
    /\ pc = "requested"
    /\ pc' \in {"returned", "raised"}
    /\ outcome' # None
    /\ outcome'[1].kind = "response"

IsEnvelope(r, status_code) ==
    /\ r.kind = "return"
    /\ r.value.type = "dict"
    /\ {"success", "error", "status_code", "description"}
         \subseteq DOMAIN r.value.d
    /\ r.value.d.success = FALSE
    /\ r.value.d.status_code = status_code

\* C12: a response with status 404, 401 or 403 gives a failure envelope
\* with success = false and status_code = the response status (not found,
\* authentication required, access forbidden); the Content-Type is not
\* looked at, the body not parsed and no file written.
C12_StatusEnvelopes ==
    [][ (Answered /\ outcome'[1].status \in {404, 401, 403}) =>
          /\ IsEnvelope(result'[1], outcome'[1].status)
          /\ result'[1].value.d.error =
               ( CASE outcome'[1].status = 404 ->
                        <<"R", "e", "s", "o", "u", "r", "c", "e", " ", "n", "o", "t", " ", "f", "o", "u", "n", "d", ":", " ">> \o request[1].url
                   [] outcome'[1].status = 401 -> <<"A", "u", "t", "h", "e", "n", "t", "i", "c", "a", "t", "i", "o", "n", " ", "r", "e", "q", "u", "i", "r", "e", "d">>
                   [] outcome'[1].status = 403 -> <<"A", "c", "c", "e", "s", "s", " ", "f", "o", "r", "b", "i", "d", "d", "e", "n">> )
          /\ effects' = {}
          /\ files' = files
          /\ dir_exists' = dir_exists
          /\ uuid_count' = uuid_count ]_vars

\* A 404 response that carries an image has been answered with the
\* envelope, the storage directory still absent.
C12_Witness ==
    /\ pc = "returned"
    /\ outcome # None /\ outcome[1].kind = "response"
    /\ outcome[1].status = 404
    /\ outcome[1].content_type = CT_png
    /\ result[1].value.d.status_code = 404
    /\ ~dir_exists
    /\ files = <<>>

GenericEnvelope(r, status, url) ==
    /\ IsEnvelope(r, 500)
    /\ r.value.d.error = HttpErrorText(status, url)
    /\ r.value.d.description =
         <<"R", "e", "q", "u", "e", "s", "t", " ", "f", "a", "i", "l", "e", "d", ":", " ">> \o HttpErrorText(status, url)

\* The success path: the Content-Type header has been read.
OnSuccessPath(eff) == "content_type" \in eff

\* C13, as stated: every response with a status outside 200-299 other
\* than 404, 401 and 403 (1xx, 3xx, other 4xx, 5xx) gives a failure
\* envelope carrying the error text, and only 2xx responses reach the
\* success path.
C13_Non2xxIsError ==
    [][ (Answered /\ outcome'[1].status \notin 200..299
           /\ outcome'[1].status \notin {404, 401, 403}) =>
          /\ result'[1].kind = "return"
          /\ result'[1].value.type = "dict"
          /\ "success" \in DOMAIN result'[1].value.d
          /\ result'[1].value.d.success = FALSE
          /\ ~OnSuccessPath(effects') ]_vars

\* C13, amended: every other 4xx and every 5xx response gives the
\* generic envelope (success = false, status_code 500, error = the text of
\* the HTTP error) and touches neither header, body nor storage; every
\* response with a status below 400 (1xx, 2xx, 3xx) reaches the success
\* path.
C13_ErrorStatusIsError ==
    [][ Answered =>
          /\ (outcome'[1].status \in 400..599
                /\ outcome'[1].status \notin {404, 401, 403}) =>
               /\ GenericEnvelope(result'[1], outcome'[1].status,
                                  request[1].url)
               /\ effects' = {}
               /\ files' = files
               /\ dir_exists' = dir_exists
          /\ OnSuccessPath(effects') <=> outcome'[1].status < 400 ]_vars

\* A 500 response that carries an image has been answered with the
\* generic envelope and nothing was stored.
C13_Witness ==
    /\ pc = "returned"
    /\ outcome # None /\ outcome[1].kind = "response"
    /\ outcome[1].status = 500
    /\ outcome[1].content_type = CT_png
    /\ result[1].value.d.status_code = 500
    /\ files = <<>>

Ended == pc \in {"returned", "raised"}

\* C14: a request that times out gives success = false with status_code
\* 408 and a description that names the timeout value; a connection
\* failure gives success = false with status_code 503; neither lets an
\* exception leave make_api_request or the dynamic tool that called it.
C14_TimeoutAndConnection ==
    (Ended /\ outcome # None /\ outcome[1].kind = "exception") =>
      /\ "Timeout" \in ExceptionClasses(outcome[1].exc) =>
           /\ IsEnvelope(result[1], 408)
           /\ result[1].value.d.description =
                <<"T", "h", "e", " ", "r", "e", "q", "u", "e", "s", "t", " ", "t", "o", " ">> \o request[1].url \o <<" ", "t", "i", "m", "e", "d", " ", "o", "u", "t", " ", "a", "f", "t", "e", "r", " ">>
                \o NatToStr(request_timeout) \o <<" ", "s", "e", "c", "o", "n", "d", "s", ".">>
      /\ outcome[1].exc = "ConnectionError" =>
           /\ IsEnvelope(result[1], 503)
      /\ pc = "returned"

\* A dynamic tool's request failed by a connect timeout, which is both a
\* Timeout and a ConnectionError, and the tool returned the 408 envelope.
C14_Witness ==
    /\ pc = "returned"
    /\ call[1].kind = "tool"
    /\ outcome # None /\ outcome[1].exc = "ConnectTimeout"
    /\ result[1].value.d.status_code = 408

\* The extension C15 expects for the content types of Responses.
ExpectedExtension(content_type) ==
    CASE content_type = CT_png   -> <<"p", "n", "g">>
      [] content_type = CT_octet -> <<"b", "i", "n">>

EndsWith(s, suffix) ==
    /\ Len(suffix) <= Len(s)
    /\ SubSeq(s, Len(s) - Len(suffix) + 1, Len(s)) = suffix

\* C15: a 2xx response whose Content-Type begins with image/ or
\* application/octet-stream, on a file system that accepts the write,
\* leaves the storage directory existing and one new file in it, named
\* with the image subtype or "bin" as extension and holding the response
\* bytes; the result is success = true with that path and the content
\* type; its only other fields are the file name and a description that
\* names the path, so no field of it holds the bytes.
C15_BinarySaved ==
    [][ (Answered /\ outcome'[1].status \in 200..299
           /\ outcome'[1].content_type \in {CT_png, CT_octet}
           /\ outcome'[1].io_ok) =>
          LET r == result'[1]
              p == r.value.d.path
          IN  /\ r.kind = "return"
              /\ r.value.d.success = TRUE
              /\ dir_exists'
              /\ p \notin DOMAIN files
              /\ DOMAIN files' = DOMAIN files \cup {p}
              /\ files'[p] = outcome'[1].body
              /\ \A q \in DOMAIN files : files'[q] = files[q]
              /\ StartsWith(p, filesystem_storage \o <<"/">>)
              /\ EndsWith(p, <<".">>
                             \o ExpectedExtension(outcome'[1].content_type))
              /\ r.value.d.content_type = StrLower(outcome'[1].content_type)
              /\ DOMAIN r.value.d = {"success", "filename", "path",
                                      "content_type", "description"}
              /\ r.value.d.filename = p
              /\ r.value.d.description =
                   <<"T", "h", "e", " ", "b", "i", "n", "a", "r", "y", " ", "d", "a", "t", "a", " ", "h", "a", "s", " ", "b", "e", "e", "n", " ", "s", "a", "v", "e", "d", " ", "t", "o", ":", " ">> \o p ]_vars

\* An image/png response has been stored as a .png file in a storage
\* directory that did not exist before the call.
C15_Witness ==
    /\ pc = "returned"
    /\ outcome # None /\ outcome[1].kind = "response"
    /\ outcome[1].status = 200
    /\ outcome[1].content_type = CT_png
    /\ "mkdir" \in effects
    /\ dir_exists
    /\ result[1].value.d.path \in DOMAIN files
    /\ EndsWith(result[1].value.d.path, <<".", "p", "n", "g">>)

\* C16: no retries.  A call sends its one request when it is made; once
\* the request is over, by a response or by a failure, the call ends in
\* that same step without a second request, and it ends by returning a
\* result whenever the file system accepted what the call wrote.
C16_NoRetry ==
    [][ /\ (pc = "serving" /\ pc' = "requested") => (sent = 0 /\ sent' = 1)
        /\ pc = "requested" =>
             /\ sent = 1
             /\ sent' = 1
             /\ pc' \in {"returned", "raised"}
             /\ request' = request
             /\ outcome'[1].io_ok => pc' = "returned"
        /\ (pc \in {"returned", "raised"}) => pc' = "serving" ]_vars

\* A dynamic tool whose request timed out has returned after one request.
C16_Witness ==
    /\ pc = "returned"
    /\ call[1].kind = "tool"
    /\ outcome # None /\ outcome[1].exc = "ReadTimeout"
    /\ sent = 1
    /\ result[1].value.d.success = FALSE

----------------------------------------------------------------------------
(* C17, C18: the document request and the registration pass                *)

Fetched == pc \notin {"prompts", "analysis", "files", "api", "fetch"}

NoDynamicTool ==
    /\ spec = None
    /\ pc \in {"fetched", "registered", "serving"}
    /\ registry = <<>>
    /\ tools = <<>>
    /\ static_tools = StaticTools

\* C17, as stated: when the document request fails by a network error,
\* a timeout or a status outside 200-299, fetch_openapi_spec returns None
\* without raising, no dynamic tool is registered and the pass completes
\* with the five static tools registered.
C17_FailedFetchNon2xx ==
    (Fetched /\ (outcome[1].kind = "exception"
                   \/ outcome[1].status \notin 200..299))
      => NoDynamicTool

\* C17, amended: the same for a network error, a timeout or a 4xx or 5xx
\* status.
C17_FailedFetch ==
    (Fetched /\ (outcome[1].kind = "exception"
                   \/ outcome[1].status \in 400..599))
      => NoDynamicTool

\* The server is serving after the document request timed out: the five
\* static tools and no other.
C17_Witness ==
    /\ pc = "serving"
    /\ outcome # None /\ outcome[1].exc = "ReadTimeout"
    /\ spec = None
    /\ static_tools = StaticTools
    /\ registry = <<>>

WellFormed(v) ==
    /\ v.shape = "document"
    /\ \A i \in 1..Len(v.entries) : v.entries[i].kind \in {"op", "empty"}

\* C18: a fetched document that is not an object with a "paths" mapping
\* of path items that map methods to operation objects ends in a
\* registration skip: no exception leaves register_api_tools.
C18_MalformedDocumentSkipped ==
    (Fetched /\ outcome[1].kind = "response" /\ outcome[1].body.json
       /\ ~WellFormed(outcome[1].body.value))
      => pc # "crashed"

----------------------------------------------------------------------------
(* C19, C20: what a tool hands to the runtime                              *)

\* C19: no tool function raises to the runtime: whatever the input and
\* whatever fails inside (a missing file, an unreadable image, parameters
\* that are no mapping, a failed write of a download), the call returns a
\* result with success = false.
C19_NoToolRaises ==
    Ended =>
      /\ pc = "returned"
      /\ result[1].kind = "return"

\* C20: every result a tool returns is an object with a boolean success,
\* a data (or payload) field, a string error that is empty on success,
\* and a description.  (load_image, whose result is an Image and no
\* mapping at all, is left aside.)
C20_ResultShape ==
    (pc = "returned" /\ call[1].kind # "load_image") =>
      LET r == result[1].value IN
      /\ r.type = "dict"
      /\ {"success", "error", "description"} \subseteq DOMAIN r.d
      /\ "data" \in DOMAIN r.d \/ "payload" \in DOMAIN r.d
      /\ r.d.success \in BOOLEAN
      /\ r.d.success => r.d.error = <<>>

----------------------------------------------------------------------------
(* C21: the storage directory under concurrent invocations                 *)

\* C21: under any interleaving of invocations (binary downloads,
\* save_image with or without a filename, download_ontology), every
\* write creates a new file under a name of its own: no invocation
\* writes where a file already is, and no two invocations write to the
\* same path.
C21_UniqueNewFiles ==
    \A i, j \in 1..Len(calls) :
       /\ ~calls[i].existed
       /\ (i # j /\ calls[i].path # None /\ calls[j].path # None)
            => calls[i].path # calls[j].path

----------------------------------------------------------------------------
(* C22: the startup pass and the serving                                   *)

\* How far run_server is.
Stage(p) ==
    CASE p = "prompts"    -> 0
      [] p = "analysis"   -> 1
      [] p = "files"      -> 2
      [] p = "api"        -> 3
      [] p = "fetch"      -> 4
      [] p = "fetched"    -> 5
      [] p = "register"   -> 6
      [] p = "registered" -> 7
      [] p = "serving"    -> 8
      [] p = "requested"  -> 8
      [] p = "crashed"    -> 9

Serving(p) == p \in {"serving", "requested"}

NoDuplicates(s) == \A i, j \in 1..Len(s) : s[i] = s[j] => i = j

\* C22: the startup pass runs once and is over before any invocation:
\* run_server never goes back to an earlier step, the registration
\* functions run one after the other and each adds its tools once;
\* serving starts only from the
\* finished pass, with every static tool registered once; an
\* invocation is accepted only while serving; and no step taken while
\* serving changes the registered tools.
C22_RegistrationBeforeServing ==
    [][ /\ Stage(pc') >= Stage(pc)
        /\ (Stage(pc') > Stage(pc) /\ Stage(pc) <= 3) =>
              Stage(pc') = Stage(pc) + 1
        /\ NoDuplicates(static_tools')
        /\ (Serving(pc') /\ ~Serving(pc)) =>
              /\ pc = "registered"
              /\ static_tools = StaticTools
              /\ idx = Len(paths)
        /\ call' # None => Serving(pc')
        /\ Serving(pc) =>
              /\ Serving(pc')
              /\ registry' = registry
              /\ tools' = tools
              /\ static_tools' = static_tools ]_vars

\* An invocation is being served by a server that registered its five
\* static tools and two dynamic ones.
C22_Witness ==
    /\ pc = "requested"
    /\ call # None
    /\ static_tools = StaticTools
    /\ Len(tools) = 2
    /\ registered_count = 2

----------------------------------------------------------------------------
(* C23: authentication headers                                             *)

\* C23: every outbound request (document fetch, dynamic tool request,
\* ontology download) has the header X-API-Key, with the key, exactly
\* when an API key is configured, and the header Authorization, with
\* "Bearer " and the token, exactly when a token is configured; so both
\* when both are configured and neither when neither is.
C23_AuthHeaders ==
    request # None =>
      LET h == request[1].headers IN
      /\ DOMAIN h \subseteq {"X-API-Key", "Authorization"}
      /\ "X-API-Key" \in DOMAIN h <=> api_key \notin {None, Some(<<>>)}
      /\ "X-API-Key" \in DOMAIN h => h["X-API-Key"] = api_key[1]
      /\ "Authorization" \in DOMAIN h <=> auth_token \notin {None, Some(<<>>)}
      /\ "Authorization" \in DOMAIN h =>
            h["Authorization"] = <<"B", "e", "a", "r", "e", "r", " ">> \o auth_token[1]

\* A dynamic tool's request is out with the bearer token and, no key
\* being configured, without X-API-Key.
C23_Witness ==
    /\ pc = "requested"
    /\ call[1].kind = "tool"
    /\ api_key = None
    /\ auth_token = Some(<<"t", "1">>)
    /\ request[1].headers = ("Authorization" :> <<"B", "e", "a", "r", "e", "r", " ", "t", "1">>)

----------------------------------------------------------------------------
(* C24..C26: the analysis tools                                            *)

Analysed(tool) == pc = "analysed" /\ call[1].kind = tool

FailureResult(r) ==
    /\ r.kind = "return"
    /\ r.value.d.success = FALSE
    /\ r.value.d.data = <<>>
    /\ r.value.d.error # <<>>

\* C24: for a readable image of size W x H and a bounding box with the
\* four keys, compute_average_rgb returns success = true exactly when
\* 0 <= x1 < x2 <= W and 0 <= y1 < y2 <= H, and region_size is then
\* x2 - x1 by y2 - y1 (40 by 40 for the box (10,10,50,50) on a 100 x 100
\* image); every other box gives success = false, an error text and an
\* empty data.
C24_AverageRgbBox ==
    (Analysed("compute_average_rgb")
       /\ call[1].args.file.kind = "image"
       /\ call[1].args.bbox # None
       /\ BoxKeys \subseteq DOMAIN call[1].args.bbox[1]) =>
      LET b == call[1].args.bbox[1]
          W == call[1].args.file.width
          H == call[1].args.file.height
          r == result[1]
          inside == /\ 0 <= b.x1 /\ b.x1 < b.x2 /\ b.x2 <= W
                    /\ 0 <= b.y1 /\ b.y1 < b.y2 /\ b.y2 <= H
      IN  /\ r.kind = "return"
          /\ r.value.d.success <=> inside
          /\ inside => r.value.d.data.region_size =
                         [width |-> b.x2 - b.x1, height |-> b.y2 - b.y1]
          /\ (b = Box(10, 10, 50, 50) /\ W = 100 /\ H = 100) =>
                r.value.d.data.region_size = [width |-> 40, height |-> 40]
          /\ ~inside => FailureResult(r)

\* The box that ends on the right and bottom edge of a 100 x 100 image
\* has been averaged.
C24_Witness ==
    /\ Analysed("compute_average_rgb")
    /\ call[1].args.file = ImageFile(100, 100, Colour)
    /\ call[1].args.bbox = Some(Box(50, 0, 100, 100))
    /\ result[1].value.d.success
    /\ result[1].value.d.data.region_size = [width |-> 50, height |-> 100]

\* C25: for an image path at which there is no file, both analysis tools
\* return success = false with an error that names the path and an empty
\* data, raise nothing and open no image, whatever the bounding box or
\* the regions are.
C25_MissingImagePath ==
    (pc = "analysed" /\ call[1].args.file.kind = "missing") =>
      /\ FailureResult(result[1])
      /\ EndsWith(result[1].value.d.error, call[1].args.image_path)
      /\ "open" \notin effects
      /\ "stats" \notin effects

\* compute_average_rgb has answered for a missing file and a bounding
\* box without keys, with the error about the path.
C25_Witness ==
    /\ Analysed("compute_average_rgb")
    /\ call[1].args.file.kind = "missing"
    /\ call[1].args.bbox = Some(<<>>)
    /\ result[1].value.d.error = <<"I", "m", "a", "g", "e", " ", "p", "a", "t", "h", " ", "d", "o", "e", "s", " ", "n", "o", "t", " ", "e", "x", "i", "s", "t", ":", " ", "c", "a", "r", "d", ".", "p", "n", "g">>

\* A region is malformed when its bounding box lacks a key or has
\* coordinates outside the image.
Malformed(region, file) ==
    \/ region.bbox = None
    \/ ~(BoxKeys \subseteq DOMAIN region.bbox[1])
    \/ LET b == region.bbox[1] IN
         \/ b.x1 < 0 \/ b.y1 < 0
         \/ b.x2 > file.width \/ b.y2 > file.height
         \/ b.x1 >= b.x2 \/ b.y1 >= b.y2

\* C26: when a region passed to analyze_image_regions has a bounding box
\* with a missing key or with coordinates outside the image (negative,
\* beyond width or height, x1 >= x2), the tool returns success = false
\* with a message and computes no statistics.
C26_MalformedRegionRejected ==
    (Analysed("analyze_image_regions")
       /\ call[1].args.file.kind = "image"
       /\ \E k \in 1..Len(call[1].args.regions) :
             Malformed(call[1].args.regions[k], call[1].args.file)) =>
      /\ result[1].value.d.success = FALSE
      /\ result[1].value.d.error # <<>>
      /\ "stats" \notin effects

----------------------------------------------------------------------------
(* C27: save_image and the storage directory                               *)

HasSlash(s) == \E i \in 1..Len(s) : s[i] = "/"

\* p is a file directly in the storage directory.
DirectChild(p) ==
    /\ StartsWith(p, filesystem_storage \o <<"/">>)
    /\ LET name == SubSeq(p, Len(filesystem_storage) + 2, Len(p)) IN
         /\ ~HasSlash(name)
         /\ name \notin { <<>>, <<".">>, <<".", ".">> }

\* C27: whatever filename save_image is given (with "/" separators, ".."
\* components, a trailing "/", an absolute path), every file the call
\* creates or overwrites is a direct child of the storage directory; and
\* a call with empty image data writes nothing and returns
\* success = false.
C27_SaveStaysInStorage ==
    [][ (pc = "serving" /\ call' # None /\ call'[1].kind = "save_image") =>
          /\ \A p \in DOMAIN files' :
                (p \notin DOMAIN files \/ files'[p] # files[p])
                   => DirectChild(p)
          /\ \A p \in DOMAIN files : p \in DOMAIN files'
          /\ call'[1].args.image_data = "empty" =>
                /\ files' = files
                /\ dir_exists' = dir_exists
                /\ result'[1].value.d.success = FALSE ]_vars

\* save_image was given ../b/a.png and wrote a.png in the storage
\* directory.
C27_Witness ==
    /\ pc = "returned"
    /\ call[1].kind = "save_image"
    /\ call[1].args.filename = Some(<<".", ".", "/", "b", "/", "a", ".", "p", "n", "g">>)
    /\ result[1].value.d.success
    /\ result[1].value.d.path = filesystem_storage \o <<"/", "a", ".", "p", "n", "g">>
    /\ DOMAIN files = { filesystem_storage \o <<"/", "a", ".", "p", "n", "g">> }

====
